---- MODULE Spec2Model ----
(***************************************************************************)
(* A model of the Manilow register machine: the operand classes            *)
(* (Literal, Block, Variable, Pointer, Port, Bitfield), the two state      *)
(* providers (Memory, IO), the register bus, the kernel's operations and   *)
(* the runtime's fetch / execute / advance loop with its two drivers.      *)
(*                                                                         *)
(* Words are JavaScript numbers.  The model keeps the integers and the two *)
(* non-numbers the code produces: NaN (State.UNDEFINED, Argument.UNDEFINED)*)
(* and the value `undefined` that reading an unset array slot yields.      *)
(* Both are encoded as integers outside the range any program of the model *)
(* computes (WordsInRange checks that).                                    *)
(***************************************************************************)
EXTENDS Integers, Sequences, FiniteSets, TLC

VARIABLES memory, io, source, program, steps, pc, mode, trace, frames, runs, text

vars == <<memory, io, source, program, steps, pc, mode, trace, frames, runs, text>>

(***************************************************************************)
(* Bounds of the model.                                                    *)
(***************************************************************************)
\* Longest program built from the instruction alphabet.
MaxLen == 2

\* Most operations applied to operands built directly on a memory.
MaxOps == 2

\* Most calls of run() on one machine.
MaxRuns == 2

\* Most subroutines that call a further subroutine, one inside the other.
MaxDepth == 2

(***************************************************************************)
(* Words.                                                                  *)
(***************************************************************************)
\* State.UNDEFINED = Argument.UNDEFINED = NaN.
UNDEFINED == 1000000000

\* The JavaScript value `undefined` (an array slot that was never set).
JsUndefined == UNDEFINED + 1

IsNum(v) == v # UNDEFINED /\ v # JsUndefined

\* Largest magnitude a numeric word reaches in the model.
WordLimit == UNDEFINED - 1

\* Binary transforms (a non-number operand gives NaN).
add(a, b) == IF IsNum(a) /\ IsNum(b) THEN a + b ELSE UNDEFINED
sub(a, b) == IF IsNum(a) /\ IsNum(b) THEN a - b ELSE UNDEFINED
mul(a, b) == IF IsNum(a) /\ IsNum(b) THEN a * b ELSE UNDEFINED

\* Unary transforms.
increment(a) == add(a, 1)
decrement(a) == sub(a, 1)
negate(a) == IF IsNum(a) THEN 0 - a ELSE UNDEFINED
double(a) == mul(a, 2)
square(a) == mul(a, a)

\* Binary predicates: === and !== (NaN equals nothing, not even itself),
\* and the ordering operators (false as soon as one side is not a number).
eq(a, b) == a # UNDEFINED /\ b # UNDEFINED /\ a = b
neq(a, b) == ~eq(a, b)
gt(a, b) == IsNum(a) /\ IsNum(b) /\ a > b
gte(a, b) == IsNum(a) /\ IsNum(b) /\ a >= b
lt(a, b) == IsNum(a) /\ IsNum(b) /\ a < b
lte(a, b) == IsNum(a) /\ IsNum(b) /\ a < b

\* Unary predicates.
zero(a) == eq(a, 0)

\* nonZero written as "positive".
nonZeroPositive(a) == gt(a, 0)

nonZero(a) == neq(a, 0)

\* The Flags enumeration.
HALT == 0
ZERO == 1

\* ToInt32 of a word, as the bitwise operators apply it.
ToInt32(v) == IF IsNum(v) THEN v ELSE 0

\* Bit i of the two's complement form of x.
BitOf(x, i) == (x \div (2 ^ i)) % 2

\* Number of low bits the flag helpers' masks use.
MaskBits == ZERO + 1

RECURSIVE OrFrom(_, _, _)
OrFrom(x, y, i) ==
  IF i >= MaskBits THEN 0
  ELSE (IF BitOf(y, i) = 1 /\ BitOf(x, i) = 0 THEN 2 ^ i ELSE 0) + OrFrom(x, y, i + 1)

\* x | y for a mask y below 2^MaskBits.
BitOr(x, y) == ToInt32(x) + OrFrom(ToInt32(x), y, 0)

RECURSIVE XorFrom(_, _, _)
XorFrom(x, y, i) ==
  IF i >= MaskBits THEN 0
  ELSE (IF BitOf(y, i) = 1 THEN (IF BitOf(x, i) = 1 THEN 0 - (2 ^ i) ELSE 2 ^ i) ELSE 0)
       + XorFrom(x, y, i + 1)

\* x ^ y for a mask y below 2^MaskBits.
BitXor(x, y) == ToInt32(x) + XorFrom(ToInt32(x), y, 0)

(***************************************************************************)
(* State providers.                                                        *)
(***************************************************************************)
STACK_SEGMENT == 50

\* Memory.get: an unset slot reads as `undefined`.
MemGet(mem, address) == IF address \in DOMAIN mem THEN mem[address] ELSE JsUndefined

\* A set that skips a falsy word.
MemSetTruthy(mem, address, value) ==
  IF value = 0 THEN mem
  ELSE [k \in (DOMAIN mem) \cup {address} |-> IF k = address THEN value ELSE mem[k]]

\* Memory.set: the array grows (or gains a property) at the address.
MemSet(mem, address, value) ==
  [k \in (DOMAIN mem) \cup {address} |-> IF k = address THEN value ELSE mem[k]]

\* A get that treats an empty queue like a missing one.
IoGetEmptyThrows(chans, address) ==
  IF ~(address \in 0..(Len(chans) - 1)) \/ chans[address + 1] = <<>>
    THEN [value |-> UNDEFINED, io |-> chans, err |-> TRUE]
    ELSE [value |-> Head(chans[address + 1]),
          io |-> [chans EXCEPT ![address + 1] = Tail(chans[address + 1])],
          err |-> FALSE]

\* IO.get: the channel must exist; shift() removes the head; an empty queue
\* gives UNDEFINED.  The result is the value, the queues and the error flag.
IoGet(chans, address) ==
  IF ~(address \in 0..(Len(chans) - 1))
    THEN [value |-> UNDEFINED, io |-> chans, err |-> TRUE]
  ELSE LET channel == chans[address + 1] IN
    IF channel = <<>>
      THEN [value |-> UNDEFINED, io |-> chans, err |-> FALSE]
      ELSE [value |-> Head(channel),
            io |-> [chans EXCEPT ![address + 1] = Tail(channel)],
            err |-> FALSE]

\* IO has no set of its own: State.set does nothing.
IoSet(chans, address, value) == chans

(***************************************************************************)
(* Arguments.                                                              *)
(***************************************************************************)
\* Argument's constructor: a null or undefined datum becomes UNDEFINED.
ArgData(data) == IF data = JsUndefined THEN UNDEFINED ELSE data

Literal(data) == [kind |-> "Literal", data |-> ArgData(data)]
Block(data) == [kind |-> "Block", data |-> ArgData(data)]
Variable(data) == [kind |-> "Variable", data |-> ArgData(data)]
Pointer(data) == [kind |-> "Pointer", data |-> ArgData(data)]
Port(data) == [kind |-> "Port", data |-> ArgData(data)]
Bitfield(data) == [kind |-> "Bitfield", data |-> ArgData(data)]

\* An argument the instruction did not supply and the operation has no
\* default for (the parameter is `undefined`).
Missing == [kind |-> "Missing", data |-> UNDEFINED]

IsLiteral(arg) == arg.kind \in {"Literal", "Block"}
IsMutable(arg) == arg.kind \in {"Variable", "Pointer", "Bitfield", "Port"}

(***************************************************************************)
(* The register bus.                                                       *)
(***************************************************************************)
NUM_NAMED_REGS == 8
NUM_UNNAMED_REGS == 10
NUM_REGISTERS == NUM_NAMED_REGS + NUM_UNNAMED_REGS

accum == Variable(0)
data == Variable(1)
flags == Bitfield(2)
instr == Variable(3)
stack == Pointer(4)
base == Pointer(5)
input == Port(0)
output == Port(1)

\* The general purpose registers r0 .. r9 follow the base pointer.
anon(i) == Variable(base.data + 1 + i)

\* A machine state while an operation runs: memory, queues, whether an
\* exception was thrown, and the memory addresses written so far.
MState(mem, chans) == [mem |-> mem, io |-> chans, err |-> FALSE, w |-> {}]

Throw(st) == [st EXCEPT !.err = TRUE]

\* An address getter that treats a pointer like a variable.
AddressDirect(st, arg) ==
  CASE arg.kind \in {"Pointer", "Variable", "Bitfield", "Port"} -> arg.data
    [] OTHER -> UNDEFINED

\* Mutable.address / Pointer.address (getter) / Argument.address.
Address(st, arg) ==
  CASE arg.kind = "Pointer" -> MemGet(st.mem, arg.data)
    [] arg.kind \in {"Variable", "Bitfield", "Port"} -> arg.data
    [] OTHER -> UNDEFINED

\* Argument.read / Mutable.read on memory-backed arguments and literals.
Read(st, arg) ==
  CASE IsLiteral(arg) -> arg.data
    [] arg.kind \in {"Variable", "Pointer", "Bitfield"} -> MemGet(st.mem, Address(st, arg))
    [] OTHER -> UNDEFINED

\* Port.read: dequeues from the channel the port names.
PortRead(st, port) ==
  LET r == IoGet(st.io, port.data) IN
    [value |-> r.value, st |-> [st EXCEPT !.io = r.io, !.err = @ \/ r.err]]

\* Mutable.write; a Literal or Block has no write method (TypeError).
Write(st, arg, value) ==
  IF st.err THEN st
  ELSE CASE arg.kind \in {"Variable", "Pointer", "Bitfield"} ->
              [st EXCEPT !.mem = MemSet(st.mem, Address(st, arg), value),
                         !.w = @ \cup {Address(st, arg)}]
         [] arg.kind = "Port" -> [st EXCEPT !.io = IoSet(st.io, arg.data, value)]
         [] OTHER -> Throw(st)

\* A setter that stores the new address in the cell pointed to.
SetAddressPointed(st, arg, newAddress) ==
  IF st.err THEN st
  ELSE IF arg.kind = "Pointer"
    THEN [st EXCEPT !.mem = MemSet(st.mem, MemGet(st.mem, arg.data), newAddress),
                    !.w = @ \cup {MemGet(st.mem, arg.data)}]
    ELSE Throw(st)

\* Pointer.address (setter); the other classes have a getter only, so the
\* assignment throws in strict mode.
SetAddress(st, arg, newAddress) ==
  IF st.err THEN st
  ELSE IF arg.kind = "Pointer"
    THEN [st EXCEPT !.mem = MemSet(st.mem, arg.data, newAddress),
                    !.w = @ \cup {arg.data}]
    ELSE Throw(st)

\* Mutable.get / toggle / set / unset.
FlagGet(st, reg, bitNo) == BitOr(Read(st, reg), bitNo) # 0

FlagToggle(st, reg, bitNo) == Write(st, reg, BitXor(Read(st, reg), 2 ^ bitNo))

FlagSet(st, reg, bitNo) == IF FlagGet(st, reg, bitNo) THEN st ELSE FlagToggle(st, reg, bitNo)

FlagUnset(st, reg, bitNo) == IF ~FlagGet(st, reg, bitNo) THEN st ELSE FlagToggle(st, reg, bitNo)

(***************************************************************************)
(* The kernel.                                                             *)
(***************************************************************************)
\* The argument a lambda receives in position i, or its default.
Arg(args, i, default) == IF Len(args) >= i THEN args[i] ELSE default

\* Reading through a parameter that is `undefined` throws.
ReadOk(arg) == arg.kind # "Missing"

\* copy that ignores its destination operand.
copyToAccum(st, src, dest) ==
  IF ~ReadOk(src) \/ ~ReadOk(dest) THEN Throw(st) ELSE Write(st, accum, Read(st, src))

copy(st, src, dest) ==
  IF ~ReadOk(src) \/ ~ReadOk(dest) THEN Throw(st) ELSE Write(st, dest, Read(st, src))

zeroOp(st, dest) == copy(st, Literal(0), dest)

inOp(st, dest) ==
  LET r == PortRead(st, input) IN Write(r.st, dest, r.value)

outOp(st, src) == Write(st, output, Read(st, src))

Transform2(op, a, b) ==
  CASE op = "ADD" -> add(a, b)
    [] op = "SUB" -> sub(a, b)
    [] op = "MUL" -> mul(a, b)

\* applySrcToDest with the operands of fn exchanged.
applyDestToSrc(op, st, a, b, dest) == Write(st, dest, Transform2(op, Read(st, a), Read(st, b)))

applySrcToDest(op, st, a, b, dest) == Write(st, dest, Transform2(op, Read(st, b), Read(st, a)))

Transform1(op, a) ==
  CASE op = "INC" -> increment(a)
    [] op = "DEC" -> decrement(a)
    [] op = "NEG" -> negate(a)
    [] op = "DBL" -> double(a)
    [] op = "SQ" -> square(a)

\* applyToDest that always puts the result in accum.
applyToAccum(op, st, dest) == Write(st, accum, Transform1(op, Read(st, dest)))

applyToDest(op, st, dest) == Write(st, dest, Transform1(op, Read(st, dest)))

Comparison(op, a, b) ==
  CASE op = "EQ" -> eq(a, b)
    [] op = "NEQ" -> neq(a, b)
    [] op = "GT" -> gt(a, b)
    [] op = "GTE" -> gte(a, b)
    [] op = "LT" -> lt(a, b)
    [] op = "LTE" -> lte(a, b)

compare(op, st, a, b, c) ==
  LET success == Comparison(op, Read(st, b), Read(st, a)) IN
    IF c.kind = "Bitfield"
      THEN (IF success THEN FlagUnset(st, c, ZERO) ELSE FlagSet(st, c, ZERO))
      ELSE Write(st, c, IF success THEN 1 ELSE 0)

\* push that moves the stack pointer before it writes.
pushIncrementFirst(st, src, stk) ==
  LET s1 == SetAddress(st, stk, add(Address(st, stk), 1)) IN
    Write(s1, stk, Read(st, src))

push(st, src, stk) ==
  LET s1 == Write(st, stk, Read(st, src)) IN
    SetAddress(s1, stk, add(Address(s1, stk), 1))

\* pop that reads the cell at the stack pointer and leaves the pointer.
popPeeking(st, dest) ==
  LET tip == Read(st, stack)
  IN [tip |-> tip, st |-> IF dest.kind = "Null" THEN st ELSE Write(st, dest, tip)]

\* pop returns the tip together with the state.
pop(st, dest) ==
  LET s1 == SetAddress(st, stack, sub(Address(st, stack), 1))
      tip == Read(s1, stack)
  IN [tip |-> tip, st |-> IF dest.kind = "Null" THEN s1 ELSE Write(s1, dest, tip)]

\* The null a caller inside the kernel passes for "discard".
Null == [kind |-> "Null", data |-> UNDEFINED]

\* jump without the allowance for the runtime's increment.
jumpNoAllowance(st, dest) ==
  IF ~ReadOk(dest) THEN Throw(st) ELSE Write(st, instr, Read(st, dest))

jump(st, dest) ==
  IF ~ReadOk(dest) THEN Throw(st) ELSE Write(st, instr, sub(Read(st, dest), 1))

\* call saving the index of the ENTER itself.
callSavingSelf(st, dest) == jump(push(st, Literal(Read(st, instr)), stack), dest)

call(st, dest) ==
  LET returnAddr == Read(st, instr) IN
    jump(push(st, Literal(add(returnAddr, 1)), stack), dest)

\* return that never pushes the return value.
returnDiscarding(st, returnValue) ==
  LET p == pop(st, Null) IN jump(p.st, Literal(p.tip))

returnOp(st, returnValue) ==
  LET p == pop(st, Null)
      returnAddr == Literal(p.tip)
      s2 == IF returnValue.kind = "Null" THEN p.st ELSE push(p.st, returnValue, stack)
  IN jump(s2, returnAddr)

Predicate(op, a) == IF op = "IF" THEN zero(a) ELSE nonZero(a)

jumpIf(op, st, dest, src) ==
  IF ~ReadOk(dest) THEN Throw(st)
  ELSE IF ~Predicate(op, Read(st, src)) THEN st
  ELSE Write(st, instr, sub(Read(st, dest), 1))

\* The op codes of the instruction table (SQRT is left out: its results
\* are not integers in general, and words of the model are).
OpCodes ==
  {"NOOP", "HALT", "COPY", "ZERO", "IN", "OUT",
   "EQ", "NEQ", "GT", "GTE", "LT", "LTE",
   "ADD", "SUB", "MUL", "INC", "DEC", "NEG", "DBL", "SQ",
   "PUSH", "POP", "GOTO", "IF", "ELSE", "ENTER", "EXIT"}

lookupOp(code) == code \in OpCodes

\* The op codes bound to compare.
Comparisons == {"EQ", "NEQ", "GT", "GTE", "LT", "LTE"}

\* The lambda of an instruction table entry applied to bound arguments.
Exec(opCode, args, st) ==
  CASE opCode = "NOOP" -> st
    [] opCode = "HALT" -> FlagSet(st, flags, HALT)
    [] opCode = "COPY" -> copy(st, Arg(args, 1, data), Arg(args, 2, accum))
    [] opCode = "ZERO" -> zeroOp(st, Arg(args, 1, accum))
    [] opCode = "IN" -> inOp(st, Arg(args, 1, accum))
    [] opCode = "OUT" -> outOp(st, Arg(args, 1, accum))
    [] opCode \in {"EQ", "NEQ", "GT", "GTE", "LT", "LTE"} ->
         compare(opCode, st, Arg(args, 1, data), Arg(args, 2, accum), Arg(args, 3, flags))
    [] opCode \in {"ADD", "SUB", "MUL"} ->
         applySrcToDest(opCode, st, Arg(args, 1, data), Arg(args, 2, accum), Arg(args, 3, accum))
    [] opCode \in {"INC", "DEC", "NEG", "DBL", "SQ"} ->
         applyToDest(opCode, st, Arg(args, 1, accum))
    [] opCode = "PUSH" -> push(st, Arg(args, 1, accum), Arg(args, 2, stack))
    [] opCode = "POP" -> pop(st, Arg(args, 1, accum)).st
    [] opCode = "GOTO" -> jump(st, Arg(args, 1, Missing))
    [] opCode \in {"IF", "ELSE"} -> jumpIf(opCode, st, Arg(args, 1, Missing), Arg(args, 2, accum))
    [] opCode = "ENTER" -> call(st, Arg(args, 1, Missing))
    [] opCode = "EXIT" -> returnOp(st, Arg(args, 1, accum))

(***************************************************************************)
(* The runtime.                                                            *)
(***************************************************************************)
MAX_STEPS == 50
STARTING_INSTRUCTION == 0

ArgumentTypes == {"BLOCK", "LITERAL", "ADDRESS", "VARIABLE", "POINTER"}

\* Number(content): a number is itself, `undefined` becomes NaN.
ToNumber(content) == IF content = JsUndefined THEN UNDEFINED ELSE content

\* bindArgument with an ADDRESS bound as a live location.
bindArgumentLive(argumentSource) ==
  LET content == ToNumber(argumentSource.content) IN
    CASE argumentSource.type = "BLOCK" -> Block(content)
      [] argumentSource.type = "LITERAL" -> Literal(content)
      [] argumentSource.type = "ADDRESS" -> Variable(content)
      [] argumentSource.type = "VARIABLE" -> Variable(content)
      [] argumentSource.type = "POINTER" -> Pointer(content)

\* Runtime.bindArgument (the caller has checked the type).
bindArgument(argumentSource) ==
  LET content == ToNumber(argumentSource.content) IN
    CASE argumentSource.type = "BLOCK" -> Block(content)
      [] argumentSource.type = "LITERAL" -> Literal(content)
      [] argumentSource.type = "ADDRESS" -> Literal(content)
      [] argumentSource.type = "VARIABLE" -> Variable(content)
      [] argumentSource.type = "POINTER" -> Pointer(content)

\* A load that looks up the first instruction's op code only.
LoadFailsOnFirst(instructions) ==
  instructions # <<>> /\ ~lookupOp(instructions[1].opCode)

\* Runtime.bindOperation / bindArgument throw on an unknown op code or type.
LoadFails(instructions) ==
  \E i \in 1..Len(instructions) :
    \/ ~lookupOp(instructions[i].opCode)
    \/ \E j \in 1..Len(instructions[i].arguments) : instructions[i].arguments[j].type \notin ArgumentTypes

\* Runtime.loadProgram.
loadProgram(instructions) ==
  [i \in 1..Len(instructions) |->
    [opCode |-> instructions[i].opCode,
     args |-> [j \in 1..Len(instructions[i].arguments) |-> bindArgument(instructions[i].arguments[j])]]]

\* Runtime.halt.
halt(st) == FlagSet(st, flags, HALT)

\* Runtime.dumpRegisters: dump() reads every register, the two ports included.
dumpRegisters(st) == PortRead(PortRead(st, input).st, output).st

\* A step counter that is never advanced.
NextStepsStuck(cnt) == cnt

\* The step counter after a step that goes on.
NextSteps(cnt) == cnt + 1

\* An instruction pointer written back as the operation left it.
NextNoSame(st) == Read(st, instr)

\* The instruction pointer the runtime writes back after the operation.
NextNo(st) == add(Read(st, instr), 1)

\* Runtime.step from the write-back of the instruction pointer on: the end
\* of the program and the step budget.
Finish(s3, prog, cnt, no) ==
  IF gte(Read(s3, instr), Len(prog))
    THEN [st |-> halt(s3), steps |-> cnt, ran |-> TRUE, no |-> no]
  ELSE IF NextSteps(cnt) > MAX_STEPS
    THEN [st |-> halt(s3), steps |-> NextSteps(cnt), ran |-> TRUE, no |-> no]
  ELSE [st |-> s3, steps |-> NextSteps(cnt), ran |-> TRUE, no |-> no]

\* Runtime.step once the lambda has returned or thrown: the dump and the
\* write-back of the instruction pointer.  (Each intermediate state is
\* computed once and then named.)
AfterLambda(s1, prog, cnt, no) ==
  IF s1.err
    THEN [st |-> s1, steps |-> cnt, ran |-> TRUE, no |-> no]
  ELSE CHOOSE r \in {Finish(s3, prog, cnt, no) :
                       s3 \in {Write(s2, instr, NextNo(s2)) : s2 \in {dumpRegisters(s1)}}} : TRUE

\* Runtime.step.  The result carries the state after the step, the step
\* counter, whether a lambda was called and the index that was fetched;
\* the state's err field tells whether an exception was thrown.
step(mem, chans, prog, cnt) ==
  LET st0 == MState(mem, chans)
      no == Read(st0, instr)
  IN IF ~(no \in 0..(Len(prog) - 1))
       THEN [st |-> Throw(st0), steps |-> cnt, ran |-> FALSE, no |-> no]
     ELSE CHOOSE r \in {AfterLambda(s1, prog, cnt, no) :
                          s1 \in {Exec(prog[no + 1].opCode, prog[no + 1].args, st0)}} : TRUE

\* Machine.execute's report once run() has resolved: io.get(0), io.get(1).
FinalReport(chans) == IoGet(IoGet(chans, 0).io, 1).io

\* The drivers' halt test on a given machine state.
HaltedIn(mem, chans) == FlagGet(MState(mem, chans), flags, HALT)

\* run()'s loop, while (!flags.get(HALT)) step(), from a machine state, cut
\* off after k steps: the state it stops in, whether a step threw, and how
\* many of the k steps were left.
RECURSIVE FreeRun(_, _, _, _, _)
FreeRun(mem, chans, prog, cnt, k) ==
  IF k = 0 \/ HaltedIn(mem, chans)
    THEN [mem |-> mem, io |-> chans, steps |-> cnt, err |-> FALSE, left |-> k]
  ELSE CHOOSE res \in
         {IF r.st.err
            THEN [mem |-> r.st.mem, io |-> r.st.io, steps |-> r.steps, err |-> TRUE, left |-> k - 1]
            ELSE FreeRun(r.st.mem, r.st.io, prog, r.steps, k - 1) :
          r \in {step(mem, chans, prog, cnt)}} : TRUE

\* A halt test that looks at the ZERO bit.
HaltedByZeroBit == BitOf(ToInt32(MemGet(memory, flags.data)), ZERO) = 1

\* The test both drivers make before a step.
Halted == FlagGet(MState(memory, io), flags, HALT)

(***************************************************************************)
(* Observers: the indices executed so far, and the calls in progress.      *)
(***************************************************************************)
Front(s) == SubSeq(s, 1, Len(s) - 1)
Last(s) == s[Len(s)]

StackPointer(mem) == MemGet(mem, stack.data)
InstrPointer(mem) == MemGet(mem, instr.data)

\* A call in progress: its return index, the stack pointer it began with,
\* and whether the stack pointer has stayed at or above that since.
NextFrames(fs, opCode, no, mem) ==
  LET sp == StackPointer(mem)
      open == IF opCode = "EXIT" /\ fs # <<>> THEN Front(fs) ELSE fs
      kept == [i \in 1..Len(open) |-> [open[i] EXCEPT !.ok = @ /\ gte(sp, open[i].sp)]]
  IN IF opCode = "ENTER"
       THEN Append(kept, [ret |-> no + 1, sp |-> sp, ok |-> TRUE])
       ELSE kept

(***************************************************************************)
(* Programs.                                                               *)
(***************************************************************************)
Lit(n) == [type |-> "LITERAL", content |-> n]
Blk(n) == [type |-> "BLOCK", content |-> n]
Var(a) == [type |-> "VARIABLE", content |-> a]
Ptr(a) == [type |-> "POINTER", content |-> a]
Adr(a) == [type |-> "ADDRESS", content |-> a]

Ins(opCode, arguments) == [opCode |-> opCode, arguments |-> arguments]

\* Jump targets of the alphabet: backwards and forwards.
Targets == {0, 2}

Alphabet ==
  {Ins("NOOP", <<>>), Ins("HALT", <<>>), Ins("COPY", <<Lit(1)>>), Ins("INC", <<>>),
   Ins("DEC", <<>>), Ins("COPY", <<Lit(0), Var(instr.data)>>),
   Ins("COPY", <<Lit(1), Var(flags.data)>>),
   Ins("PUSH", <<>>), Ins("POP", <<>>), Ins("EQ", <<>>), Ins("EXIT", <<>>)}
  \cup {Ins(op, <<Blk(t)>>) : op \in {"GOTO", "IF", "ELSE", "ENTER"}, t \in Targets}
  \cup {Ins("IF", <<Blk(2), Var(data.data)>>)}

\* Start: COPY 3; ENTER Sub; ENTER Sub; HALT; Sub: MUL 2; EXIT @accum
CallProgram ==
  <<Ins("COPY", <<Lit(3)>>), Ins("ENTER", <<Blk(4)>>), Ins("ENTER", <<Blk(4)>>),
    Ins("HALT", <<>>), Ins("MUL", <<Lit(2)>>), Ins("EXIT", <<Var(accum.data)>>)>>

\* Start: GOTO Start
LoopProgram == <<Ins("GOTO", <<Blk(0)>>)>>

\* GOTO Start; COPY 999; Start: COPY 1
GotoProgram == <<Ins("GOTO", <<Blk(2)>>), Ins("COPY", <<Lit(999)>>), Ins("COPY", <<Lit(1)>>)>>

\* COPY 100; INC; INC; INC
IncProgram == <<Ins("COPY", <<Lit(100)>>), Ins("INC", <<>>), Ins("INC", <<>>), Ins("INC", <<>>)>>

\* A jump before the start of the program.
NegativeProgram == <<Ins("GOTO", <<Blk(-1)>>), Ins("NOOP", <<>>)>>

NamedPrograms == {CallProgram, LoopProgram, GotoProgram, IncProgram, NegativeProgram}

Programs == NamedPrograms \cup UNION {[1..n -> Alphabet] : n \in 0..MaxLen}

\* The instructions that stop a run or keep it going: the halt, the jumps
\* back, the stores into the instruction-pointer and flags cells, a
\* comparison, a call that never returns.
LoopAlphabet ==
  {Ins("NOOP", <<>>), Ins("HALT", <<>>), Ins("EQ", <<>>),
   Ins("COPY", <<Lit(0), Var(instr.data)>>), Ins("COPY", <<Lit(1), Var(flags.data)>>),
   Ins("GOTO", <<Blk(0)>>), Ins("ENTER", <<Blk(0)>>)}

LoopPrograms == NamedPrograms \cup UNION {[1..n -> LoopAlphabet] : n \in 0..MaxLen}

\* Literals the data-movement and arithmetic programs use.
ArithVals == {0, 2, 5}

\* COPY and ADD / SUB / MUL in their nullary, unary and binary forms.
ArithAlphabet ==
  {Ins("COPY", <<>>), Ins("COPY", <<Var(anon(0).data)>>)}
  \cup {Ins("COPY", <<Lit(v)>>) : v \in ArithVals}
  \cup {Ins("COPY", <<Lit(5), Var(a)>>) : a \in {data.data, anon(0).data}}
  \cup {Ins(op, <<>>) : op \in {"ADD", "SUB", "MUL"}}
  \cup {Ins(op, <<Lit(v)>>) : op \in {"ADD", "SUB", "MUL"}, v \in ArithVals}
  \cup {Ins(op, <<Lit(2), Var(anon(0).data)>>) : op \in {"ADD", "SUB", "MUL"}}

\* COPY 100; MUL 2
MulProgram == <<Ins("COPY", <<Lit(100)>>), Ins("MUL", <<Lit(2)>>)>>

\* COPY 7, @data; COPY 1; ADD
NullaryAddProgram ==
  <<Ins("COPY", <<Lit(7), Var(data.data)>>), Ins("COPY", <<Lit(1)>>), Ins("ADD", <<>>)>>

ArithPrograms ==
  {MulProgram, NullaryAddProgram} \cup UNION {[1..n -> ArithAlphabet] : n \in 0..MaxLen}

\* The six comparisons with the default operands (data, accum, flags), with
\* a literal right operand into flags, and with a literal right operand,
\* accum as left operand and r0 as destination; COPY to vary accum.
CompareAlphabet ==
  {Ins("COPY", <<Lit(v)>>) : v \in {1, 2}}
  \cup {Ins(op, <<>>) : op \in Comparisons}
  \cup {Ins(op, <<Lit(1)>>) : op \in Comparisons}
  \cup {Ins(op, <<Lit(1), Var(accum.data), Var(anon(0).data)>>) : op \in Comparisons}

ComparePrograms == UNION {[1..n -> CompareAlphabet] : n \in 0..MaxLen}

\* PUSH and POP with their default operand, a literal and r0; calls and
\* returns; COPY to vary accum and r0.
StackAlphabet ==
  {Ins("NOOP", <<>>), Ins("COPY", <<Lit(5)>>), Ins("COPY", <<Lit(9), Var(anon(0).data)>>),
   Ins("PUSH", <<>>), Ins("PUSH", <<Lit(7)>>), Ins("PUSH", <<Var(anon(0).data)>>),
   Ins("POP", <<>>), Ins("POP", <<Var(anon(0).data)>>),
   Ins("ENTER", <<Blk(1)>>), Ins("ENTER", <<Blk(2)>>),
   Ins("EXIT", <<>>), Ins("EXIT", <<Var(anon(0).data)>>)}

StackPrograms == {CallProgram} \cup UNION {[1..n -> StackAlphabet] : n \in 0..MaxLen}

\* IN and OUT with their default operand and with r0, OUT of a literal, a
\* COPY to vary accum, and a jump back so that a run reads and writes often.
IoAlphabet ==
  {Ins("NOOP", <<>>), Ins("COPY", <<Lit(5)>>), Ins("GOTO", <<Blk(0)>>),
   Ins("IN", <<>>), Ins("IN", <<Var(anon(0).data)>>),
   Ins("OUT", <<>>), Ins("OUT", <<Lit(7)>>), Ins("OUT", <<Var(anon(0).data)>>)}

IoPrograms == UNION {[1..n -> IoAlphabet] : n \in 0..MaxLen}

\* Instructions whose written operand is a literal or a block (the values
\* written include zero), and instructions that change the state first.
ImmutableAlphabet ==
  {Ins("NOOP", <<>>), Ins("COPY", <<Lit(5)>>), Ins("PUSH", <<>>),
   Ins("COPY", <<Lit(1), Lit(2)>>), Ins("COPY", <<Lit(0), Lit(2)>>),
   Ins("COPY", <<Lit(1), Blk(0)>>),
   Ins("INC", <<Lit(5)>>), Ins("DEC", <<Lit(1)>>), Ins("ZERO", <<Lit(5)>>),
   Ins("ADD", <<Lit(1), Var(accum.data), Lit(3)>>),
   Ins("EQ", <<Lit(1), Var(accum.data), Lit(3)>>),
   Ins("PUSH", <<Lit(1), Lit(2)>>),
   Ins("IN", <<Lit(5)>>), Ins("POP", <<Lit(5)>>)}

ImmutablePrograms == UNION {[1..n -> ImmutableAlphabet] : n \in 0..MaxLen}

\* Op codes the instruction table does not hold (the lookup compares with
\* ===, so a lower-case mnemonic is unknown too).
UnknownOpCodes == {"JIMJOM", "copy"}

\* Valid instructions and instructions with an unknown op code.
LoadAlphabet ==
  {Ins("NOOP", <<>>), Ins("COPY", <<Lit(100)>>), Ins("INC", <<>>), Ins("DEC", <<>>),
   Ins("PUSH", <<>>)}
  \cup {Ins(op, <<Lit(100)>>) : op \in UnknownOpCodes}

LoadPrograms == UNION {[1..n -> LoadAlphabet] : n \in 0..MaxLen}

\* An argument source whose type is none of the five.
BadArgument == [type |-> "REGISTER", content |-> anon(0).data]

\* COPY with sources and destinations of every argument type: literals
\* (zero too), a block, the address of r0, r0 and r1 as variables, r1 and
\* the stack register as pointers; and an argument of an unknown type.
OperandAlphabet ==
  {Ins("NOOP", <<>>), Ins("COPY", <<Lit(0)>>), Ins("COPY", <<Blk(3)>>),
   Ins("COPY", <<Adr(anon(0).data)>>), Ins("COPY", <<Var(anon(0).data)>>),
   Ins("COPY", <<Ptr(anon(1).data)>>), Ins("COPY", <<Ptr(stack.data)>>),
   Ins("COPY", <<Lit(9), Var(anon(0).data)>>),
   Ins("COPY", <<Lit(anon(0).data), Var(anon(1).data)>>),
   Ins("COPY", <<Lit(5), Ptr(anon(1).data)>>),
   Ins("COPY", <<Lit(9), Ptr(stack.data)>>),
   Ins("COPY", <<Lit(5), Adr(anon(0).data)>>),
   Ins("COPY", <<BadArgument>>)}

OperandPrograms == UNION {[1..n -> OperandAlphabet] : n \in 0..MaxLen}

\* The op codes bound to applyToDest, and ZERO.
UnaryOps == {"ZERO", "INC", "DEC", "NEG", "DBL", "SQ"}

\* The unary operations on accum and on r0; COPY to vary accum and r0.
UnaryAlphabet ==
  {Ins("COPY", <<Lit(v)>>) : v \in {0, 3, 0 - 2}}
  \cup {Ins("COPY", <<Lit(4), Var(anon(0).data)>>)}
  \cup {Ins(op, <<>>) : op \in UnaryOps}
  \cup {Ins(op, <<Var(anon(0).data)>>) : op \in UnaryOps}

\* COPY 100; DEC; DEC; DEC
DecProgram == <<Ins("COPY", <<Lit(100)>>), Ins("DEC", <<>>), Ins("DEC", <<>>), Ins("DEC", <<>>)>>

UnaryPrograms == {IncProgram, DecProgram} \cup UNION {[1..n -> UnaryAlphabet] : n \in 0..MaxLen}

\* Instructions of programs that are run again: they end by falling off
\* the end, by HALT, by the step budget, or by an exception.
RerunAlphabet ==
  {Ins("NOOP", <<>>), Ins("INC", <<>>), Ins("HALT", <<>>), Ins("GOTO", <<Blk(0)>>),
   Ins("COPY", <<Lit(1), Lit(2)>>)}

RerunPrograms == UNION {[1..n -> RerunAlphabet] : n \in 0..MaxLen}

\* Instructions of the programs both drivers are compared on: they end by
\* falling off the end, by HALT, by a comparison, by the step budget or by
\* an exception, and they read input and use the stack on the way.
DriverAlphabet ==
  {Ins("NOOP", <<>>), Ins("INC", <<>>), Ins("HALT", <<>>), Ins("EQ", <<>>),
   Ins("GOTO", <<Blk(0)>>), Ins("COPY", <<Lit(1), Lit(2)>>), Ins("IN", <<>>),
   Ins("PUSH", <<>>)}

DriverPrograms == {CallProgram} \cup UNION {[1..n -> DriverAlphabet] : n \in 0..MaxLen}

(***************************************************************************)
(* The parser.  Source text is a sequence of lines and a line a sequence   *)
(* of tokens: the separators are tokens of one character, a word (letters) *)
(* and a literal (0d1) are one token each, so that the parser's tests on   *)
(* the first and the last character and its splits act on tokens.          *)
(***************************************************************************)
BLOCK_SUFFIX == ":"
OP_SUFFIX == " "
ARG_SEP == ","
COMMENT_PREFIX == ";"
ADDRESS_SIGIL == "&"
VARIABLE_SIGIL == "@"
POINTER_SIGIL == "*"

\* The register names of Bus.map.
RegisterNames ==
  {"accum", "data", "flags", "instr", "stack", "base", "input", "output",
   "r0", "r1", "r2", "r3", "r4", "r5", "r6", "r7", "r8", "r9"}

\* Bus.map as Bus's constructor fills it: initRegister, initPointer and
\* initPort enter the address they are given; the entries of flags and
\* instr are written after the address has been advanced.
BusMap ==
  [name \in RegisterNames |->
     CASE name = "accum" -> accum.data
       [] name = "data" -> data.data
       [] name = "flags" -> flags.data + 1
       [] name = "instr" -> instr.data + 1
       [] name = "stack" -> stack.data
       [] name = "base" -> base.data
       [] name = "input" -> input.data
       [] name = "output" -> output.data
       [] OTHER -> anon(CHOOSE i \in 0..(NUM_UNNAMED_REGS - 1) :
                          name = <<"r0", "r1", "r2", "r3", "r4", "r5", "r6", "r7", "r8", "r9">>[i + 1]).data]

\* Tokens that begin with a letter, and so match BLOCK_PATTERN.
WordTokens ==
  RegisterNames \cup
  {"NOOP", "HALT", "INC", "COPY", "GOTO", "ZERO", "DEF", "Start", "End", "Comment"}

\* BLOCK_PATTERN and LITERAL_PATTERN on the token a text begins with.
BLOCK_PATTERN(tok) == tok \in WordTokens
LITERAL_PATTERN(tok) == tok \in {"0d0", "0d1", "0d2", "0d100", "0x10"}

\* Parser.parseLiteral: the radix letter, then the digits.
parseLiteral(tok) ==
  CASE tok = "0d0" -> 0
    [] tok = "0d1" -> 1
    [] tok = "0d2" -> 2
    [] tok = "0d100" -> 100
    [] tok = "0x10" -> 16

\* The string a token sequence spells.
RECURSIVE Join(_)
Join(toks) == IF toks = <<>> THEN "" ELSE toks[1] \o Join(Tail(toks))

\* String.trim.
RECURSIVE TrimLeft(_)
TrimLeft(toks) == IF toks # <<>> /\ toks[1] = " " THEN TrimLeft(Tail(toks)) ELSE toks
RECURSIVE TrimRight(_)
TrimRight(toks) == IF toks # <<>> /\ Last(toks) = " " THEN TrimRight(Front(toks)) ELSE toks
Trim(toks) == TrimRight(TrimLeft(toks))

\* Where a separator first occurs in a text (0: nowhere).
IndexOf(toks, sep) ==
  IF \E i \in 1..Len(toks) : toks[i] = sep
    THEN CHOOSE i \in 1..Len(toks) : toks[i] = sep /\ \A j \in 1..(i - 1) : toks[j] # sep
    ELSE 0

\* String.split on a separator.
RECURSIVE Split(_, _)
Split(toks, sep) ==
  LET i == IndexOf(toks, sep) IN
    IF i = 0 THEN <<toks>>
    ELSE <<SubSeq(toks, 1, i - 1)>> \o Split(SubSeq(toks, i + 1, Len(toks)), sep)

\* argText.replace(/^\W+/, ''): the text without its leading sigils,
\* separators and blanks.
RECURSIVE DropNonWord(_)
DropNonWord(toks) ==
  IF toks # <<>> /\ ~BLOCK_PATTERN(toks[1]) /\ ~LITERAL_PATTERN(toks[1])
    THEN DropNonWord(Tail(toks))
    ELSE toks

\* Parser.parseArgumentSource; err: it threw.
parseArgumentSource(argText) ==
  LET t == Trim(argText) IN
    CASE t # <<>> /\ BLOCK_PATTERN(t[1]) ->
           [type |-> "BLOCK", content |-> Join(t), err |-> FALSE]
      [] t # <<>> /\ LITERAL_PATTERN(t[1]) ->
           [type |-> "LITERAL", content |-> parseLiteral(t[1]), err |-> FALSE]
      [] t # <<>> /\ t[1] = ADDRESS_SIGIL ->
           [type |-> "ADDRESS", content |-> Join(DropNonWord(t)), err |-> FALSE]
      [] t # <<>> /\ t[1] = VARIABLE_SIGIL ->
           [type |-> "VARIABLE", content |-> Join(DropNonWord(t)), err |-> FALSE]
      [] t # <<>> /\ t[1] = POINTER_SIGIL ->
           [type |-> "POINTER", content |-> Join(DropNonWord(t)), err |-> FALSE]
      [] OTHER -> [type |-> "", content |-> "", err |-> TRUE]

\* Parser.parseInstructionSource: a text with a blank in it has arguments,
\* which are what follows the first blank, trimmed and split on commas.
parseInstructionSource(line) ==
  IF IndexOf(line, OP_SUFFIX) = 0
    THEN [opCode |-> Join(line), arguments |-> <<>>, err |-> FALSE]
  ELSE LET i == IndexOf(line, OP_SUFFIX)
           pieces == Split(Trim(SubSeq(line, i + 1, Len(line))), ARG_SEP)
           args == [j \in 1..Len(pieces) |-> parseArgumentSource(pieces[j])]
       IN [opCode |-> Join(SubSeq(line, 1, i - 1)),
           arguments |-> args,
           err |-> \E j \in 1..Len(args) : args[j].err]

\* Parser.parseLine: an empty line, a comment, a block label, or an
\* instruction with what follows the first comment prefix cut off.  The
\* block and the instruction are sequences of at most one element.
parseLine(line) ==
  LET l == Trim(line) IN
    IF l = <<>> \/ l[1] = COMMENT_PREFIX
      THEN [block |-> <<>>, instruction |-> <<>>, err |-> FALSE]
    ELSE IF Last(l) = BLOCK_SUFFIX
      THEN [block |-> <<Join(Front(l))>>, instruction |-> <<>>, err |-> FALSE]
    ELSE LET ins == parseInstructionSource(Split(l, COMMENT_PREFIX)[1]) IN
      [block |-> <<>>,
       instruction |-> <<[opCode |-> ins.opCode, arguments |-> ins.arguments]>>,
       err |-> ins.err]

\* Parser.assignBlocks from line i on: the labels met since the last
\* instruction are attached to the next one; the other lines are dropped.
RECURSIVE assignBlocks(_, _, _)
assignBlocks(lines, i, blocks) ==
  IF i > Len(lines) THEN <<>>
  ELSE IF lines[i].block # <<>>
    THEN assignBlocks(lines, i + 1, blocks \o lines[i].block)
  ELSE IF lines[i].instruction # <<>>
    THEN <<[opCode |-> lines[i].instruction[1].opCode,
            arguments |-> lines[i].instruction[1].arguments,
            blocks |-> blocks]>> \o assignBlocks(lines, i + 1, <<>>)
  ELSE assignBlocks(lines, i + 1, blocks)

\* A map read: a missing key gives `undefined`.
MapGet(map, key) == IF key \in DOMAIN map THEN map[key] ELSE JsUndefined

\* Number(content) of the target of a DEF: a literal's number, NaN for a
\* label.
TargetNumber(arg) == IF arg.type = "LITERAL" THEN arg.content ELSE UNDEFINED

\* Parser.runDirectives and Parser.define from instruction i on: a DEF
\* enters a variable and is removed; a DEF without two arguments throws.
RECURSIVE runDirectives(_, _, _)
runDirectives(lines, i, variables) ==
  IF i > Len(lines) THEN [instructions |-> <<>>, variables |-> variables, err |-> FALSE]
  ELSE IF lines[i].opCode # "DEF"
    THEN LET rest == runDirectives(lines, i + 1, variables) IN
           [rest EXCEPT !.instructions = <<lines[i]>> \o @]
  ELSE IF Len(lines[i].arguments) < 2
    THEN [instructions |-> <<>>, variables |-> variables, err |-> TRUE]
  ELSE LET name == lines[i].arguments[1].content
           address == TargetNumber(lines[i].arguments[2])
       IN runDirectives(lines, i + 1,
            [k \in (DOMAIN variables) \cup {name} |->
               IF k = name THEN address ELSE variables[k]])

\* The block table after Parser.assignBlocks and Parser.setBlockAddresses:
\* NaN for every label of the text, then the index of the instruction a
\* label is attached to (the last one, if it is attached twice).
setBlockAddresses(labels, lines) ==
  [l \in labels |->
     LET at == {i \in 1..Len(lines) : \E j \in 1..Len(lines[i].blocks) : lines[i].blocks[j] = l} IN
       IF at = {} THEN UNDEFINED
       ELSE (CHOOSE i \in at : \A k \in at : k <= i) - 1]

\* Parser.setArgumentAddresses on one argument.
setArgumentAddress(argument, blocks, variables) ==
  CASE argument.type = "LITERAL" -> [type |-> "LITERAL", content |-> argument.content]
    [] argument.type = "BLOCK" ->
         [type |-> "BLOCK", content |-> MapGet(blocks, argument.content)]
    [] OTHER -> [type |-> argument.type, content |-> MapGet(variables, argument.content)]

\* Parser.setArgumentAddresses, and the removal of the blocks field.
setArgumentAddresses(lines, blocks, variables) ==
  [i \in 1..Len(lines) |->
     [opCode |-> lines[i].opCode,
      arguments |-> [j \in 1..Len(lines[i].arguments) |->
                       setArgumentAddress(lines[i].arguments[j], blocks, variables)]]]

\* Parser.getProgram on the lines of a source text, with the variables
\* the parser starts from; err: the parser threw.
getProgram(lines, variables) ==
  LET parsed == [i \in 1..Len(lines) |-> parseLine(lines[i])] IN
    IF \E i \in 1..Len(parsed) : parsed[i].err
      THEN [instructions |-> <<>>, err |-> TRUE]
    ELSE LET labels == {parsed[i].block[1] : i \in {k \in 1..Len(parsed) : parsed[k].block # <<>>}}
             directed == runDirectives(assignBlocks(parsed, 1, <<>>), 1, variables)
         IN IF directed.err THEN [instructions |-> <<>>, err |-> TRUE]
            ELSE [instructions |->
                    setArgumentAddresses(directed.instructions,
                                         setBlockAddresses(labels, directed.instructions),
                                         directed.variables),
                  err |-> FALSE]

(***************************************************************************)
(* The machine.                                                            *)
(***************************************************************************)
\* Machine.initIo: the words the input queue is seeded with.
InitialInput == <<3, 2, 0, 5, 17, 0, 23>>

\* Machine.initMemory followed by Bus's constructor: zero-filled registers,
\* the stack pointer at the stack segment.
FreshMemory == [a \in 0..(NUM_REGISTERS - 1) |-> IF a = stack.data THEN STACK_SEGMENT ELSE 0]

\* Machine.initIo: the seeded input queue and the empty output queue.
FreshIo == <<InitialInput, <<>> >>

\* Machine's constructor.
InitMachine ==
  /\ memory = FreshMemory
  /\ io = FreshIo
  /\ program = <<>>
  /\ steps = 0
  /\ pc = "constructed"
  /\ mode = "none"
  /\ trace = <<>>
  /\ frames = <<>>
  /\ runs = 0
  /\ text = <<>>

\* The machine and the parsed source it is about to be given.
Init == InitMachine /\ source \in Programs

\* A run() that also clears the flags and resets the instruction pointer.
LoadResetting(src) ==
  /\ \E m \in {"free", "step"} : mode' = m
  /\ runs' = runs + 1
  /\ IF LoadFails(src)
       THEN /\ pc' = "error"
            /\ UNCHANGED <<memory, io, program, steps>>
       ELSE /\ program' = loadProgram(src)
            /\ steps' = 0
            /\ io' = dumpRegisters(MState(memory, io)).io
            /\ pc' = "running"
            /\ memory' = MemSet(MemSet(memory, flags.data, 0), instr.data, STARTING_INSTRUCTION)
  /\ source' = src
  /\ UNCHANGED text

\* Runtime.run up to the choice of driver: load, reset the step counter,
\* dump the registers.
Load(src) ==
  /\ \E m \in {"free", "step"} : mode' = m
  /\ runs' = runs + 1
  /\ IF LoadFails(src)
       THEN /\ pc' = "error"
            /\ UNCHANGED <<memory, io, program, steps>>
       ELSE /\ program' = loadProgram(src)
            /\ steps' = 0
            /\ io' = dumpRegisters(MState(memory, io)).io
            /\ pc' = "running"
            /\ UNCHANGED memory
  /\ source' = src
  /\ UNCHANGED text

\* The first run() of a machine.
Run ==
  /\ pc = "constructed"
  /\ Load(source)
  /\ UNCHANGED <<trace, frames>>

\* Another run() on the machine, of the same source or of another program,
\* once the promise of the run before has settled: resolved, or rejected by
\* an exception of the load or of the free-running loop (an exception in
\* the single-step handler settles nothing).  The observers start afresh.
Rerun ==
  /\ pc = "halted" \/ (pc = "error" /\ mode = "free")
  /\ runs < MaxRuns
  /\ \E src \in {source, IncProgram} : Load(src)
  /\ trace' = <<>>
  /\ frames' = <<>>

\* A step that takes the instruction it executes off the list.
DoStepShifting ==
  \E r \in {step(memory, io, program, steps)} :
    /\ memory' = r.st.mem
    /\ io' = r.st.io
    /\ steps' = r.steps
    /\ pc' = IF r.st.err THEN "error" ELSE "running"
    /\ trace' = IF r.ran THEN Append(trace, r.no) ELSE trace
    /\ frames' = IF r.ran /\ ~r.st.err
                   THEN NextFrames(frames, program[r.no + 1].opCode, r.no, r.st.mem)
                   ELSE frames
    /\ program' = IF r.ran THEN Tail(program) ELSE program
    /\ UNCHANGED <<source, mode, runs, text>>

\* One call of Runtime.step by either driver.
DoStep ==
  \E r \in {step(memory, io, program, steps)} :
    /\ memory' = r.st.mem
    /\ io' = r.st.io
    /\ steps' = r.steps
    /\ pc' = IF r.st.err THEN "error" ELSE "running"
    /\ trace' = IF r.ran THEN Append(trace, r.no) ELSE trace
    /\ frames' = IF r.ran /\ ~r.st.err
                   THEN NextFrames(frames, program[r.no + 1].opCode, r.no, r.st.mem)
                   ELSE frames
    /\ UNCHANGED <<source, program, mode, runs, text>>

\* run()'s promise resolves and Machine.execute reports.
Resolve ==
  /\ pc' = "halted"
  /\ io' = FinalReport(io)
  /\ UNCHANGED <<memory, source, program, steps, mode, trace, frames, runs, text>>

\* The free-running loop: while (!flags.get(HALT)) step().
FreeStep == pc = "running" /\ mode = "free" /\ ~Halted /\ DoStep

FreeResolve == pc = "running" /\ mode = "free" /\ Halted /\ Resolve

\* A single-step driver that steps without looking at the HALT flag.
TriggerUnguarded == pc = "running" /\ mode = "step" /\ DoStep

\* The single-step driver: one stdin event.
Trigger ==
  /\ pc = "running"
  /\ mode = "step"
  /\ IF Halted THEN Resolve ELSE DoStep

Next ==
  \/ Run
  \/ FreeStep
  \/ FreeResolve
  \/ Trigger

Spec == Init /\ [][Next]_vars

\* No numeric word leaves the range the encoding of NaN and undefined needs.
WordsInRange ==
  \A a \in DOMAIN memory : IsNum(memory[a]) => (memory[a] < WordLimit /\ memory[a] > 0 - WordLimit)

\* The free-running loop is synchronous: once run() has entered it, it calls
\* step() or leaves, without waiting for anything.
FairInit == InitMachine /\ source \in LoopPrograms

FairSpec == FairInit /\ [][Next]_vars /\ WF_vars(FreeStep) /\ WF_vars(FreeResolve)

\* The machine given an input / output program.
IoInit == InitMachine /\ source \in IoPrograms

IoSpec == IoInit /\ [][Next]_vars

\* The machine given a program that writes to literals.
ImmutableInit == InitMachine /\ source \in ImmutablePrograms

ImmutableSpec == ImmutableInit /\ [][Next]_vars

\* The machine given a program that may name unknown operations.
LoadInit == InitMachine /\ source \in LoadPrograms

LoadSpec == LoadInit /\ [][Next]_vars

\* The machine given a program with operands of every type.
OperandInit == InitMachine /\ source \in OperandPrograms

OperandSpec == OperandInit /\ [][Next]_vars

(***************************************************************************)
(* Operands on a bare memory: a Memory is created empty, a few cells are   *)
(* set, and pointers and a bitfield built on it are read, written,         *)
(* repointed and toggled.  The trace records the operations applied.       *)
(***************************************************************************)
\* Cells the pointers are built on, and words written and assigned.
PointerCells == {1, 3}
UnitValues == {0, 2, 10}

\* new Memory() followed by memory.set of cells 1, 2 and 3.
UnitMemories ==
  {[a \in 1..3 |-> CASE a = 1 -> c1 [] a = 2 -> c2 [] a = 3 -> c3] :
     c1 \in {1, 2, 3}, c2 \in {0, 1, 2, 3, 10}, c3 \in {2, 18}}

UnitInit ==
  /\ memory \in UnitMemories
  /\ io = << <<>> >>
  /\ source = <<>>
  /\ program = <<>>
  /\ steps = 0
  /\ pc = "operands"
  /\ mode = "none"
  /\ trace = <<>>
  /\ frames = <<>>
  /\ runs = 0
  /\ text = <<>>

\* The trace after operation op, and the variables no operation changes.
Applied(op) ==
  /\ trace' = Append(trace, op)
  /\ UNCHANGED <<io, source, program, steps, pc, mode, frames, runs, text>>

\* pointer.write(v)
PointerWrite ==
  /\ pc = "operands"
  /\ Len(trace) < MaxOps
  /\ \E p \in PointerCells, v \in UnitValues :
       /\ memory' = Write(MState(memory, io), Pointer(p), v).mem
       /\ Applied(<<"write", p, v>>)

\* pointer.address = a
PointerAssign ==
  /\ pc = "operands"
  /\ Len(trace) < MaxOps
  /\ \E p \in PointerCells, a \in UnitValues :
       /\ memory' = SetAddress(MState(memory, io), Pointer(p), a).mem
       /\ Applied(<<"address", p, a>>)

\* flags.set(f)
BitfieldSet ==
  /\ pc = "operands"
  /\ Len(trace) < MaxOps
  /\ \E f \in {HALT, ZERO} :
       /\ memory' = FlagSet(MState(memory, io), flags, f).mem
       /\ Applied(<<"set", f>>)

\* flags.unset(f)
BitfieldUnset ==
  /\ pc = "operands"
  /\ Len(trace) < MaxOps
  /\ \E f \in {HALT, ZERO} :
       /\ memory' = FlagUnset(MState(memory, io), flags, f).mem
       /\ Applied(<<"unset", f>>)

\* flags.toggle(f)
BitfieldToggle ==
  /\ pc = "operands"
  /\ Len(trace) < MaxOps
  /\ \E f \in {HALT, ZERO} :
       /\ memory' = FlagToggle(MState(memory, io), flags, f).mem
       /\ Applied(<<"toggle", f>>)

UnitNext ==
  \/ PointerWrite
  \/ PointerAssign
  \/ BitfieldSet
  \/ BitfieldUnset
  \/ BitfieldToggle

UnitSpec == UnitInit /\ [][UnitNext]_vars

(***************************************************************************)
(* Variables on a bare memory: a Memory is created empty, some cells are   *)
(* set, and words are stored with memory.set and through a Variable.       *)
(***************************************************************************)
\* Addresses of the cells, and the words stored.
CellAddresses == {0, 3, 7}
CellValues == {0, 2, 18}

\* new Memory() followed by memory.set on some of the cells.
CellMemories == UNION {[D -> {0, 18}] : D \in SUBSET CellAddresses}

CellInit ==
  /\ memory \in CellMemories
  /\ io = << <<>> >>
  /\ source = <<>>
  /\ program = <<>>
  /\ steps = 0
  /\ pc = "operands"
  /\ mode = "none"
  /\ trace = <<>>
  /\ frames = <<>>
  /\ runs = 0
  /\ text = <<>>

\* memory.set(a, v)
MemorySet ==
  /\ pc = "operands"
  /\ Len(trace) < MaxOps
  /\ \E a \in CellAddresses, v \in CellValues :
       /\ memory' = MemSet(memory, a, v)
       /\ Applied(<<"set", a, v>>)

\* new Variable('var', a, memory).write(v)
VariableWrite ==
  /\ pc = "operands"
  /\ Len(trace) < MaxOps
  /\ \E a \in CellAddresses, v \in CellValues :
       /\ memory' = Write(MState(memory, io), Variable(a), v).mem
       /\ Applied(<<"write", a, v>>)

CellNext ==
  \/ MemorySet
  \/ VariableWrite

CellSpec == CellInit /\ [][CellNext]_vars

\* The machine given a program of unary operations.
UnaryInit == InitMachine /\ source \in UnaryPrograms

UnarySpec == UnaryInit /\ [][Next]_vars

\* The machine given a program that is run, and then run again.
RerunInit == InitMachine /\ source \in RerunPrograms

RerunNext ==
  \/ Run
  \/ FreeStep
  \/ FreeResolve
  \/ Trigger
  \/ Rerun

RerunSpec == RerunInit /\ [][RerunNext]_vars

\* Calls nested d deep around an innermost subroutine:
\*   ENTER S1; HALT; S1: ENTER S2; POP; EXIT; .. Sd: ENTER In; POP; EXIT;
\*   In: INC; EXIT
NestProgram(d) ==
  [n \in 1..(3 * d + 4) |->
     LET i == n - 1 IN
       CASE i = 0 -> Ins("ENTER", <<Blk(2)>>)
         [] i = 1 -> Ins("HALT", <<>>)
         [] i = 3 * d + 2 -> Ins("INC", <<>>)
         [] i = 3 * d + 3 -> Ins("EXIT", <<>>)
         [] OTHER -> CASE (i - 2) % 3 = 0 -> Ins("ENTER", <<Blk(i + 3)>>)
                       [] (i - 2) % 3 = 1 -> Ins("POP", <<>>)
                       [] OTHER -> Ins("EXIT", <<>>)]

\* Instructions of the short programs that call and return.
NestAlphabet ==
  {Ins("ENTER", <<Blk(1)>>), Ins("ENTER", <<Blk(2)>>), Ins("POP", <<>>),
   Ins("EXIT", <<>>), Ins("INC", <<>>), Ins("HALT", <<>>)}

NestPrograms ==
  {NestProgram(d) : d \in 1..MaxDepth} \cup UNION {[1..n -> NestAlphabet] : n \in 0..MaxLen}

\* The machine given a program of nested calls.
NestInit == InitMachine /\ source \in NestPrograms

NestSpec == NestInit /\ [][Next]_vars

\* Operand lists of the PUSHes and the POPs of a program that pushes n
\* words and then pops n words.
PushArguments == {<<>>, <<Lit(7)>>, <<Lit(9)>>}
PopArguments == {<<>>, <<Var(anon(0).data)>>, <<Var(anon(1).data)>>}

\* PUSH v1; ..; PUSH vn; POP d1; ..; POP dn
LifoProgram(vs, ds) ==
  [i \in 1..(2 * Len(vs)) |->
     IF i <= Len(vs) THEN Ins("PUSH", vs[i]) ELSE Ins("POP", ds[i - Len(vs)])]

LifoPrograms ==
  UNION {{LifoProgram(vs, ds) : vs \in [1..n -> PushArguments], ds \in [1..n -> PopArguments]} :
         n \in 1..MaxLen}

\* The machine given pushes followed by as many pops.
LifoInit == InitMachine /\ source \in LifoPrograms

LifoSpec == LifoInit /\ [][Next]_vars

\* Lines of source text: blank, a comment, a label, instructions bare and
\* with an inline comment after them.
ParserLines ==
  {<<>>,
   <<";", " ", "Comment">>,
   <<"Start", ":">>,
   <<"INC">>,
   <<"INC", ";", " ", "Comment">>,
   <<"INC", " ", ";", " ", "Comment">>,
   <<" ", " ", "COPY", " ", "0d1", " ", " ", ";", " ", "Comment">>,
   <<"COPY", " ", "0d100", ";", ";", ";", " ", "Comment">>,
   <<"COPY", " ", "0d2", " ", ";", " ", "Comment", ":">>,
   <<"GOTO", " ", "Start">>}

Texts == UNION {[1..n -> ParserLines] : n \in 0..MaxLen}

\* Lines that store a word in a register by its name, and the texts made
\* of them.
RegisterLine(name) == <<"COPY", " ", "0d2", ",", " ", "@", name>>

RegisterTexts == UNION {[1..n -> {RegisterLine(name) : name \in RegisterNames}] : n \in 1..MaxLen}

\* A fresh machine about to be given a source text (split into lines).
InitParser ==
  /\ memory = FreshMemory
  /\ io = FreshIo
  /\ source = <<>>
  /\ program = <<>>
  /\ steps = 0
  /\ pc = "source"
  /\ mode = "none"
  /\ trace = <<>>
  /\ frames = <<>>
  /\ runs = 0

ParserInit == InitParser /\ text \in Texts

RegisterInit == InitParser /\ text \in RegisterTexts

\* Machine.run up to execute(): the parser turns the text into the program
\* source, or throws.
Parse ==
  /\ pc = "source"
  /\ \E parsed \in {getProgram(text, BusMap)} :
       IF parsed.err
         THEN pc' = "error" /\ UNCHANGED source
         ELSE pc' = "constructed" /\ source' = parsed.instructions
  /\ UNCHANGED <<memory, io, program, steps, mode, trace, frames, runs, text>>

ParserNext ==
  \/ Parse
  \/ Run
  \/ FreeStep
  \/ FreeResolve
  \/ Trigger

ParserSpec == ParserInit /\ [][ParserNext]_vars

\* The machine given a text that names registers.
RegisterSpec == RegisterInit /\ [][ParserNext]_vars

\* The machine given a program for either driver.
DriverInit == InitMachine /\ source \in DriverPrograms

DriverSpec == DriverInit /\ [][Next]_vars

\* The machine given a stack program.
StackInit == InitMachine /\ source \in StackPrograms

StackSpec == StackInit /\ [][Next]_vars

\* The machine given a comparison program.
CompareInit == InitMachine /\ source \in ComparePrograms

CompareSpec == CompareInit /\ [][Next]_vars

\* The machine given a data-movement or arithmetic program.
ArithInit == InitMachine /\ source \in ArithPrograms

ArithSpec == ArithInit /\ [][Next]_vars

(***************************************************************************)
(* Vocabulary of the claims.                                               *)
(***************************************************************************)
\* This step called an instruction's lambda.
Ran == Len(trace') = Len(trace) + 1

\* The index this step executed, and the instruction there.
RanNo == trace'[Len(trace')]
RanIns == program[RanNo + 1]

\* This step executed an instruction and threw nothing.
Completed == Ran /\ pc' # "error"

\* The state the operation of this step leaves, before the runtime's part.
OpState == Exec(RanIns.opCode, RanIns.args, MState(memory, io))

\* The instruction executed last.
LastIns == program[Last(trace) + 1]

Accum(mem) == MemGet(mem, accum.data)

(***************************************************************************)
(* C1  Call and return.                                                    *)
(***************************************************************************)
\* ENTER d at index i stores i+1 at the stack tip, advances the stack
\* pointer by 1 and leaves the instruction pointer at d.
EnterEffect ==
  (Completed /\ RanIns.opCode = "ENTER") =>
    LET sp == StackPointer(memory) IN
      /\ MemGet(memory', sp) = RanNo + 1
      /\ StackPointer(memory') = sp + 1
      /\ InstrPointer(memory') = RanIns.args[1].data

\* EXIT of a call whose stack pointer is where the call left it (and never
\* went below that) leaves the instruction pointer at the call's index + 1.
ExitEffect ==
  (Completed /\ RanIns.opCode = "EXIT" /\ frames # <<>>) =>
    ((Last(frames).ok /\ StackPointer(memory) = Last(frames).sp)
       => InstrPointer(memory') = Last(frames).ret)

\* Every instruction executed is the one the instruction pointer names.
FetchAtPointer == Ran => RanNo = InstrPointer(memory)

\* The subroutine program halts with 12 in the accumulator.
CallResult == (source = CallProgram /\ pc = "halted") => Accum(memory) = 12

\* C1: ENTER d at index i pushes i+1 and goes to d; the EXIT of a subroutine
\* that left the stack pointer where it found it resumes at i+1; the program
\* COPY 3; ENTER Sub; ENTER Sub; HALT; Sub: MUL 2; EXIT @accum ends with
\* accum = 12.
C1_CallReturn ==
  /\ [][EnterEffect /\ ExitEffect /\ FetchAtPointer]_vars
  /\ []CallResult

\* The subroutine program has halted after both calls returned.
C1_Witness ==
  /\ source = CallProgram
  /\ pc = "halted"
  /\ trace = <<0, 1, 4, 5, 2, 4, 5, 3>>
  /\ Accum(memory) = 12

(***************************************************************************)
(* C2  Step limit.                                                         *)
(***************************************************************************)
\* C2: the free run of Start: GOTO Start executes exactly MAX_STEPS steps and
\* is then halted; it never executes a step beyond MAX_STEPS.
C2_StepLimit ==
  (source = LoopProgram /\ mode = "free") =>
    /\ Len(trace) <= MAX_STEPS
    /\ pc = "halted" => Len(trace) = MAX_STEPS

(***************************************************************************)
(* C3  Termination.                                                        *)
(***************************************************************************)
\* C3: a free run ends: it either throws or resolves with the HALT flag
\* reading as set; no program executes more than MAX_STEPS + 1 instructions,
\* and the step that exhausts the budget throws nothing.
C3_Termination ==
  /\ [](pc = "halted" => Halted)
  /\ [](Len(trace) <= MAX_STEPS + 1)
  /\ [][steps' > MAX_STEPS => (pc' # "error" /\ Halted')]_vars
  /\ ((pc = "running" /\ mode = "free") ~> (pc \in {"halted", "error"}))

\* A free run that used up the step budget and resolved.
C3_Witness == pc = "halted" /\ mode = "free" /\ steps > MAX_STEPS /\ Halted

(***************************************************************************)
(* C4  Causes of halting.                                                  *)
(***************************************************************************)
\* The instruction names the flags cell as the destination it writes.
WritesFlagsCell(ins) ==
  \E j \in 1..Len(ins.args) : ins.args[j].kind = "Variable" /\ ins.args[j].data = flags.data

\* C4: the HALT flag comes to read as set only by the HALT operation, by the
\* instruction pointer passing the end of the program or by the step counter
\* passing the budget (or by the program storing into the flags cell
\* itself); a comparison into the flags register never halts the machine.
C4_HaltCauses ==
  [][(~Halted /\ Halted') =>
       /\ Ran
       /\ \/ RanIns.opCode = "HALT"
          \/ gte(InstrPointer(memory'), Len(program))
          \/ steps' > MAX_STEPS
          \/ WritesFlagsCell(RanIns)]_vars

(***************************************************************************)
(* C5  Halted is terminal.                                                 *)
(***************************************************************************)
\* C5: while the HALT flag reads as set no driver executes an instruction,
\* and no instruction is ever executed after a HALT instruction.
C5_HaltTerminal ==
  [][/\ Halted => ~Ran
     /\ (Ran /\ trace # <<>>) => LastIns.opCode # "HALT"]_vars

\* The subroutine program stopped at its HALT; the body after it was not
\* entered by falling through.
C5_Witness ==
  /\ source = CallProgram
  /\ pc = "halted"
  /\ LastIns.opCode = "HALT"
  /\ Last(trace) + 1 < Len(program)

(***************************************************************************)
(* C6  Sequential advance.                                                 *)
(***************************************************************************)
\* C6: every completed step leaves the instruction pointer one above the
\* value the operation left in it; when the operation did not write the
\* instruction-pointer cell that is the executed index + 1.
C6_SequentialAdvance ==
  [][Completed =>
       /\ InstrPointer(memory') = add(InstrPointer(OpState.mem), 1)
       /\ (instr.data \notin OpState.w) => InstrPointer(memory') = RanNo + 1]_vars

\* An INC has just been executed and the pointer is one past it.
C6_Witness ==
  /\ pc = "running"
  /\ trace # <<>>
  /\ LastIns.opCode = "INC"
  /\ Last(trace) > 0
  /\ InstrPointer(memory) = Last(trace) + 1

(***************************************************************************)
(* C7  GOTO.                                                               *)
(***************************************************************************)
\* GOTO Start; COPY 999; Start: COPY 1 executes indices 0 and 2 only.
GotoResult ==
  (source = GotoProgram /\ pc = "halted") => (trace = <<0, 2>> /\ Accum(memory) = 1)

\* C7: the step that executes GOTO d leaves the instruction pointer at d, and
\* the instruction executed after a GOTO d, if any, is the one at index d.
C7_GotoLands ==
  /\ [][/\ (Completed /\ RanIns.opCode = "GOTO") =>
             InstrPointer(memory') = RanIns.args[1].data
        /\ (Ran /\ trace # <<>> /\ LastIns.opCode = "GOTO") =>
             RanNo = LastIns.args[1].data]_vars
  /\ []GotoResult

\* The forward jump was taken and the instruction it skipped never ran.
C7_Witness == source = GotoProgram /\ pc = "halted" /\ trace = <<0, 2>>

(***************************************************************************)
(* C8  IF and ELSE.                                                        *)
(***************************************************************************)
\* The cell a conditional jump examines.
JumpSrc(ins) == Arg(ins.args, 2, accum)

\* Two memories agree everywhere but at the cells of S.
SameExcept(m1, m2, S) ==
  \A a \in ((DOMAIN m1) \cup (DOMAIN m2)) \ S : MemGet(m1, a) = MemGet(m2, a)

\* C8: IF d jumps to d exactly when its source reads 0, ELSE d exactly when
\* it does not; otherwise the next index follows.  Exactly one of the two
\* predicates holds of any source value, and the operation changes no cell
\* but the instruction pointer (the runtime's halt may then set the flags).
C8_ConditionalJump ==
  [][(Completed /\ RanIns.opCode \in {"IF", "ELSE"}) =>
       LET v == Read(MState(memory, io), JumpSrc(RanIns))
           jumps == IF RanIns.opCode = "IF" THEN v = 0 ELSE v # 0
       IN /\ InstrPointer(memory') = IF jumps THEN RanIns.args[1].data ELSE RanNo + 1
          /\ Predicate("IF", v) # Predicate("ELSE", v)
          /\ SameExcept(OpState.mem, memory, {instr.data})
          /\ SameExcept(memory', memory, {instr.data, flags.data})
          /\ OpState.io = io]_vars

\* An ELSE has just jumped on a negative accumulator.
C8_Witness ==
  /\ pc = "running"
  /\ trace # <<>>
  /\ LastIns.opCode = "ELSE"
  /\ Accum(memory) < 0
  /\ InstrPointer(memory) = LastIns.args[1].data
  /\ InstrPointer(memory) # Last(trace) + 1

(***************************************************************************)
(* C9  Falling off the end.                                                *)
(***************************************************************************)
\* A program of at least one instruction and at most MAX_STEPS, with no
\* jump, call, return or HALT and no store into the instruction-pointer or
\* flags cell.
StraightLine(src) ==
  /\ Len(src) >= 1
  /\ Len(src) <= MAX_STEPS
  /\ \A i \in 1..Len(src) :
       /\ src[i].opCode \notin {"GOTO", "IF", "ELSE", "ENTER", "EXIT", "HALT"}
       /\ \A j \in 1..Len(src[i].arguments) :
            src[i].arguments[j].type \in {"LITERAL", "BLOCK"}

\* C9: a straight-line program executes every instruction once, in index
\* order, the last one included, then halts, and never throws.
C9_FallOffEnd ==
  StraightLine(source) =>
    /\ pc # "error"
    /\ \A i \in 1..Len(trace) : trace[i] = i - 1
    /\ pc = "halted" => Len(trace) = Len(source)

(***************************************************************************)
(* C10  Missing instruction.                                               *)
(***************************************************************************)
\* The instruction pointer names no instruction of the program.
NoInstruction == InstrPointer(memory) \notin 0..(Len(program) - 1)

\* C10: a step that begins with the instruction pointer naming no
\* instruction executes nothing, sets the HALT flag and throws nothing.
C10_MissingInstruction ==
  [][(pc = "running" /\ ~Halted /\ NoInstruction) =>
       (~Ran /\ pc' # "error" /\ Halted')]_vars

(***************************************************************************)
(* C11  COPY and its default arguments.                                    *)
(***************************************************************************)
\* The operands COPY uses when the instruction supplies none, one or two.
CopySrc(ins) == IF Len(ins.args) >= 1 THEN ins.args[1] ELSE data
CopyDest(ins) == IF Len(ins.args) >= 2 THEN ins.args[2] ELSE accum

\* C11: COPY writes the value of its source (default data) into its
\* destination (default accum); the operation changes no cell but the
\* destination, so the source and, in the two-operand form, accum keep their
\* values; the rest of the step changes the instruction pointer only (and
\* the flags when the runtime halts).
C11_CopyDefaults ==
  [][(Completed /\ RanIns.opCode = "COPY") =>
       LET st == MState(memory, io)
           v == Read(st, CopySrc(RanIns))
           d == Address(st, CopyDest(RanIns))
       IN /\ MemGet(OpState.mem, d) = v
          /\ SameExcept(OpState.mem, memory, {d})
          /\ SameExcept(memory', OpState.mem, {instr.data, flags.data})
          /\ (d \notin {instr.data, flags.data}) => MemGet(memory', d) = v
          /\ (Len(RanIns.args) = 2 /\ d # accum.data) => Accum(memory') = Accum(memory)
          /\ (Len(RanIns.args) < 2) => d = accum.data]_vars

\* COPY 5, @r0 has run after COPY 2: r0 holds 5 and accum still holds 2.
C11_Witness ==
  /\ trace # <<>>
  /\ LastIns.opCode = "COPY"
  /\ Len(LastIns.args) = 2
  /\ MemGet(memory, anon(0).data) = 5
  /\ Accum(memory) = 2

(***************************************************************************)
(* C12  ADD / SUB / MUL and their default arguments.                       *)
(***************************************************************************)
\* The source and the destination of the three-arity pattern of COPY.
ArithSrc(ins) == IF Len(ins.args) >= 1 THEN ins.args[1] ELSE data
ArithDest(ins) == IF Len(ins.args) >= 2 THEN ins.args[2] ELSE accum

\* C12: ADD / SUB / MUL write fn(dest, src) into their destination, with data
\* as the default source and accum as the default destination; in the
\* two-operand form `s, X` the result goes into X and accum is unchanged.
C12_ArithDefaults ==
  [][(Completed /\ RanIns.opCode \in {"ADD", "SUB", "MUL"}) =>
       LET st == MState(memory, io)
           s == Read(st, ArithSrc(RanIns))
           X == ArithDest(RanIns)
           d == Address(st, X)
       IN /\ MemGet(memory', d) = Transform2(RanIns.opCode, Read(st, X), s)
          /\ (Len(RanIns.args) = 2 /\ d # accum.data) => Accum(memory') = Accum(memory)]_vars

(***************************************************************************)
(* C13  Operand order and identities of the arithmetic.                    *)
(***************************************************************************)
\* COPY 100; MUL 2 halts with 200 in the accumulator.
MulResult == (source = MulProgram /\ pc = "halted") => Accum(memory) = 200

\* C13: with one operand s and a numeric accumulator, SUB leaves
\* accum = old accum - s, ADD leaves old accum + s (so ADD 0 changes
\* nothing) and MUL leaves old accum * s; COPY 100; MUL 2 ends with 200.
C13_OperandOrder ==
  /\ [][(Completed /\ RanIns.opCode \in {"ADD", "SUB", "MUL"} /\ Len(RanIns.args) = 1
           /\ IsNum(Accum(memory))) =>
          LET s == RanIns.args[1].data
              old == Accum(memory)
          IN /\ RanIns.opCode = "SUB" => Accum(memory') = old - s
             /\ RanIns.opCode = "ADD" => Accum(memory') = old + s
             /\ (RanIns.opCode = "ADD" /\ s = 0) => Accum(memory') = old
             /\ RanIns.opCode = "MUL" => Accum(memory') = old * s]_vars
  /\ []MulResult

\* SUB 5 has run on an accumulator of 2: the difference is 2 - 5.
C13_Witness ==
  /\ trace = <<0, 1>>
  /\ program[1].opCode = "COPY" /\ program[1].args = <<Literal(2)>>
  /\ LastIns.opCode = "SUB" /\ LastIns.args = <<Literal(5)>>
  /\ Accum(memory) = 0 - 3

(***************************************************************************)
(* C14  Comparison into the flags register.                                *)
(***************************************************************************)
\* The operands a comparison uses.
CmpA(ins) == IF Len(ins.args) >= 1 THEN ins.args[1] ELSE data
CmpB(ins) == IF Len(ins.args) >= 2 THEN ins.args[2] ELSE accum
CmpC(ins) == IF Len(ins.args) >= 3 THEN ins.args[3] ELSE flags

\* Bit bitNo of the flags word of a memory.
FlagBit(mem, bitNo) == BitOf(ToInt32(MemGet(mem, flags.data)), bitNo)

\* C14: a comparison whose third operand is the flags register leaves the
\* ZERO bit clear when it succeeded and set when it failed, and leaves the
\* HALT bit as it was.
C14_CompareIntoFlags ==
  [][(Completed /\ RanIns.opCode \in Comparisons /\ CmpC(RanIns) = flags) =>
       LET st == MState(memory, io)
           success == Comparison(RanIns.opCode, Read(st, CmpB(RanIns)), Read(st, CmpA(RanIns)))
       IN /\ FlagBit(OpState.mem, ZERO) = IF success THEN 0 ELSE 1
          /\ FlagBit(OpState.mem, HALT) = FlagBit(memory, HALT)]_vars

(***************************************************************************)
(* C15  Comparison into a cell.                                            *)
(***************************************************************************)
\* The relation each comparison is named after, between a left and a right
\* word (false as soon as one side is not a number, EQ and NEQ apart).
Relation(op, l, r) ==
  CASE op = "EQ" -> eq(l, r)
    [] op = "NEQ" -> ~eq(l, r)
    [] op = "GT" -> IsNum(l) /\ IsNum(r) /\ l > r
    [] op = "GTE" -> IsNum(l) /\ IsNum(r) /\ l >= r
    [] op = "LT" -> IsNum(l) /\ IsNum(r) /\ l < r
    [] op = "LTE" -> IsNum(l) /\ IsNum(r) /\ l <= r

\* C15: OP a, b, c with c a cell other than the flags register writes 1 to c
\* when the relation of OP holds between b (left) and a (right) and 0
\* otherwise; a, b and the flags register are unchanged by the operation.
C15_CompareIntoCell ==
  [][(Completed /\ RanIns.opCode \in Comparisons /\ CmpC(RanIns).kind # "Bitfield") =>
       LET st == MState(memory, io)
           a == CmpA(RanIns)
           b == CmpB(RanIns)
           c == Address(st, CmpC(RanIns))
       IN /\ MemGet(OpState.mem, c) =
               IF Relation(RanIns.opCode, Read(st, b), Read(st, a)) THEN 1 ELSE 0
          /\ SameExcept(OpState.mem, memory, {c})
          /\ Read(OpState, a) = Read(st, a)
          /\ Read(OpState, b) = Read(st, b)
          /\ MemGet(OpState.mem, flags.data) = MemGet(memory, flags.data)]_vars

(***************************************************************************)
(* C16  The six relations.                                                 *)
(***************************************************************************)
\* C16: on the words every executed comparison reads, the function it applies
\* is the relation it is named after; LTE differs from LT exactly on equal
\* operands, as GTE differs from GT.
C16_NamedRelations ==
  [][(Ran /\ RanIns.opCode \in Comparisons) =>
       LET st == MState(memory, io)
           l == Read(st, CmpB(RanIns))
           r == Read(st, CmpA(RanIns))
       IN /\ Comparison(RanIns.opCode, l, r) = Relation(RanIns.opCode, l, r)
          /\ (Comparison("LTE", l, r) # Comparison("LT", l, r)) <=> (l = r)
          /\ (Comparison("GTE", l, r) # Comparison("GT", l, r)) <=> (l = r)]_vars

(***************************************************************************)
(* C17  Stack round trip.                                                  *)
(***************************************************************************)
\* The operands of PUSH and POP.
PushSrc(ins) == IF Len(ins.args) >= 1 THEN ins.args[1] ELSE accum
PopDest(ins) == IF Len(ins.args) >= 1 THEN ins.args[1] ELSE accum

\* Destinations a POP may name.
PopDests == {accum, anon(0)}

\* A run that began with PUSH X; POP Y on the fresh machine (registers
\* zero-filled) has given Y the value X had and restored the stack pointer.
RoundTripRun ==
  (trace = <<0, 1>> /\ program[1].opCode = "PUSH" /\ program[2].opCode = "POP") =>
    LET X == PushSrc(program[1])
        Y == PopDest(program[2])
    IN /\ Read(MState(memory, io), Y) = IF IsLiteral(X) THEN X.data ELSE 0
       /\ StackPointer(memory) = STACK_SEGMENT

\* C17: PUSH X writes X's value at the old stack-pointer address and then
\* adds 1 to the stack pointer; POP Y subtracts 1 and then reads the cell
\* the stack pointer names into Y; so POP Y applied to the state any
\* executed PUSH X leaves gives Y the value X had and the stack pointer its
\* value before the push, and so does the run PUSH X; POP Y.  (X is a
\* literal or a data cell, Y a data cell; the stack pointer is wherever
\* pushes, pops, calls and returns have moved it, below the segment too.)
C17_StackRoundTrip ==
  /\ [][/\ (Completed /\ RanIns.opCode = "PUSH") =>
             LET st == MState(memory, io)
                 x == Read(st, PushSrc(RanIns))
                 sp == StackPointer(memory)
             IN /\ MemGet(memory', sp) = x
                /\ StackPointer(memory') = sp + 1
                /\ \A Y \in PopDests :
                     LET r == pop(OpState, Y) IN
                       /\ r.tip = x
                       /\ Read(r.st, Y) = x
                       /\ StackPointer(r.st.mem) = sp
        /\ (Completed /\ RanIns.opCode = "POP") =>
             LET sp == StackPointer(memory) IN
                /\ StackPointer(memory') = sp - 1
                /\ Read(MState(memory', io'), PopDest(RanIns)) = MemGet(memory, sp - 1)]_vars
  /\ []RoundTripRun

\* PUSH 7; POP @r0 has run: r0 holds 7 and the stack pointer is back at the
\* stack segment.
C17_Witness ==
  /\ trace = <<0, 1>>
  /\ program[1].opCode = "PUSH" /\ program[1].args = <<Literal(7)>>
  /\ LastIns.opCode = "POP" /\ LastIns.args = <<anon(0)>>
  /\ MemGet(memory, anon(0).data) = 7
  /\ StackPointer(memory) = STACK_SEGMENT

(***************************************************************************)
(* C18  The stack effect of EXIT.                                          *)
(***************************************************************************)
\* The return value EXIT pushes.
ExitValue(ins) == IF Len(ins.args) >= 1 THEN ins.args[1] ELSE accum

\* A matching return: the call in progress found the stack pointer at
\* Last(frames).sp - 1, left it one higher, and it is there again.
Matching == frames # <<>> /\ Last(frames).ok /\ StackPointer(memory) = Last(frames).sp

\* C18: EXIT takes the return address r from the cell below the stack
\* pointer, puts its return value (default accum) in that cell, leaves the
\* stack pointer where it was and the instruction pointer at r; after a
\* matching ENTER .. EXIT the stack pointer is one above its value before
\* the ENTER and the cell below it holds the returned value.  The return
\* that discards its value (null) leaves the stack pointer one lower: after
\* a matching call, at its value before the ENTER.
C18_ExitStackEffect ==
  [][(Completed /\ RanIns.opCode = "EXIT") =>
       LET st == MState(memory, io)
           sp == StackPointer(memory)
           r == MemGet(memory, sp - 1)
           v == Read(st, ExitValue(RanIns))
           discard == returnOp(st, Null)
       IN /\ StackPointer(memory') = sp
          /\ MemGet(memory', sp - 1) = v
          /\ InstrPointer(memory') = add(sub(r, 1), 1)
          /\ IsNum(r) => InstrPointer(memory') = r
          /\ StackPointer(discard.mem) = sp - 1
          /\ InstrPointer(discard.mem) = sub(r, 1)
          /\ Matching =>
               LET before == Last(frames).sp - 1 IN
                 /\ StackPointer(memory') = before + 1
                 /\ MemGet(memory', StackPointer(memory') - 1) = v
                 /\ InstrPointer(memory') = Last(frames).ret
                 /\ StackPointer(discard.mem) = before]_vars

\* The subroutine program has halted: each of its two calls left its return
\* value on the stack, 6 and then 12.
C18_Witness ==
  /\ source = CallProgram
  /\ pc = "halted"
  /\ StackPointer(memory) = STACK_SEGMENT + 2
  /\ MemGet(memory, STACK_SEGMENT) = 6
  /\ MemGet(memory, STACK_SEGMENT + 1) = 12

(***************************************************************************)
(* C19  IN reads the input queue in order.                                 *)
(***************************************************************************)
\* The destination of IN and the source of OUT.
InDest(ins) == IF Len(ins.args) >= 1 THEN ins.args[1] ELSE accum
OutSrc(ins) == IF Len(ins.args) >= 1 THEN ins.args[1] ELSE accum

\* The number of INs, and of OUTs, executed so far.
InCount == Cardinality({i \in 1..Len(trace) : program[trace[i] + 1].opCode = "IN"})
OutCount == Cardinality({i \in 1..Len(trace) : program[trace[i] + 1].opCode = "OUT"})

\* C19: the k-th IN of a run delivers the k-th word of the initial input
\* queue to its destination, and the INs executed are the only words that
\* have left the queue.
C19_InputFifo ==
  (trace # <<>> /\ LastIns.opCode = "IN" /\ InCount <= Len(InitialInput)) =>
    /\ Read(MState(memory, io), InDest(LastIns)) = InitialInput[InCount]
    /\ io[input.data + 1] = SubSeq(InitialInput, InCount + 1, Len(InitialInput))

(***************************************************************************)
(* C20  OUT enqueues.                                                      *)
(***************************************************************************)
\* C20: OUT s appends the value of s (default accum) at the tail of the
\* output queue and leaves memory and the input queue as they were, so the
\* output queue holds one word for each OUT executed.
C20_OutputEnqueue ==
  /\ [][(Completed /\ RanIns.opCode = "OUT") =>
          LET st == MState(memory, io) IN
            /\ OpState.io[output.data + 1] =
                 Append(io[output.data + 1], Read(st, OutSrc(RanIns)))
            /\ OpState.mem = memory
            /\ OpState.io[input.data + 1] = io[input.data + 1]]_vars
  /\ [](pc = "halted" => Len(io[output.data + 1]) = OutCount)

(***************************************************************************)
(* C21  Channel reads.                                                     *)
(***************************************************************************)
\* Channel indices a read may name: the two queues and one on either side.
ChannelIndices == {0 - 1, input.data, output.data, output.data + 1}

\* In every state of the queues, get of an index that names no queue
\* throws, and get of an empty queue throws nothing, returns UNDEFINED and
\* leaves the queues as they are.
ChannelRead ==
  \A a \in ChannelIndices :
    LET r == IoGet(io, a) IN
      /\ r.err <=> (a \notin 0..(Len(io) - 1))
      /\ (a \in 0..(Len(io) - 1) /\ io[a + 1] = <<>>) =>
           (r.value = UNDEFINED /\ r.io = io /\ r.io[a + 1] = <<>>)

\* C21: a channel read of an index that names no queue throws; a read of an
\* empty queue throws nothing, returns UNDEFINED and leaves the queue empty;
\* an IN executed on an empty input queue writes UNDEFINED to its
\* destination, throws nothing and leaves the instruction pointer at the
\* next index.
C21_ChannelReads ==
  /\ []ChannelRead
  /\ [][(Ran /\ RanIns.opCode = "IN" /\ io[input.data + 1] = <<>>) =>
          /\ pc' # "error"
          /\ Read(OpState, InDest(RanIns)) = UNDEFINED
          /\ Read(MState(memory', io'), InDest(RanIns)) = UNDEFINED
          /\ io'[input.data + 1] = <<>>
          /\ InstrPointer(memory') = RanNo + 1]_vars

\* An IN has run on the emptied input queue: its destination holds
\* UNDEFINED and the run goes on at the next index.
C21_Witness ==
  /\ pc = "running"
  /\ trace # <<>>
  /\ LastIns.opCode = "IN"
  /\ io[input.data + 1] = <<>>
  /\ Read(MState(memory, io), InDest(LastIns)) = UNDEFINED
  /\ InstrPointer(memory) = Last(trace) + 1

(***************************************************************************)
(* C22  Literals and blocks are immutable.                                 *)
(***************************************************************************)
\* The position of the operand each operation writes to (0: none).
WrittenOperand(opCode) ==
  CASE opCode \in {"ZERO", "IN", "POP", "INC", "DEC", "NEG", "DBL", "SQ"} -> 1
    [] opCode \in {"COPY", "PUSH"} -> 2
    [] opCode \in {"ADD", "SUB", "MUL"} \cup Comparisons -> 3
    [] OTHER -> 0

\* The instruction names a literal or a block as the operand it writes to.
WritesLiteral(ins) ==
  LET k == WrittenOperand(ins.opCode) IN
    k >= 1 /\ k <= Len(ins.args) /\ IsLiteral(ins.args[k])

\* C22: a step that executes an operation whose written operand is a
\* literal or a block throws, whatever the value written, and leaves memory
\* and the queues as they were before the instruction; once a step has
\* thrown, no driver takes another step.
C22_Immutability ==
  /\ [][(Ran /\ WritesLiteral(RanIns)) =>
          (pc' = "error" /\ memory' = memory /\ io' = io)]_vars
  /\ [][pc # "error"]_vars

(***************************************************************************)
(* C23  An unknown op code is fatal at load.                               *)
(***************************************************************************)
\* Some instruction of the source names an op code the kernel has no entry
\* for.
HasUnknownOp(src) == \E i \in 1..Len(src) : ~lookupOp(src[i].opCode)

\* C23: run() of a source with an unknown op code anywhere throws while
\* loading: the step from the constructed machine ends in the error state
\* with memory, the queues and the instruction pointer unchanged, and no
\* instruction of that source is ever executed, the valid ones before the
\* unknown one included.
C23_UnknownOpCode ==
  /\ [][(pc = "constructed" /\ HasUnknownOp(source)) =>
          /\ pc' = "error"
          /\ memory' = memory
          /\ io' = io
          /\ InstrPointer(memory') = STARTING_INSTRUCTION]_vars
  /\ [](HasUnknownOp(source) => (trace = <<>> /\ pc # "running" /\ pc # "halted"))

\* The load of COPY 100; JIMJOM 100 has thrown: the COPY before the unknown
\* instruction did not run.
C23_Witness ==
  /\ pc = "error"
  /\ Len(source) = 2
  /\ source[1].opCode = "COPY"
  /\ source[2].opCode = "JIMJOM"
  /\ trace = <<>>
  /\ Accum(memory) = 0
  /\ io = <<InitialInput, <<>> >>

(***************************************************************************)
(* C24  Operand resolution.                                                *)
(***************************************************************************)
\* The source of the instruction this step executed.
RanSrc == source[RanNo + 1]

\* Some argument of the source has a type that is none of the five.
HasUnknownType(src) ==
  \E i \in 1..Len(src) : \E j \in 1..Len(src[i].arguments) :
    src[i].arguments[j].type \notin ArgumentTypes

\* What an argument source reads as in a memory: its content for a block, a
\* literal and an address, the cell for a variable, the cell the cell names
\* for a pointer.
Resolved(mem, a) ==
  CASE a.type \in {"BLOCK", "LITERAL", "ADDRESS"} -> a.content
    [] a.type = "VARIABLE" -> MemGet(mem, a.content)
    [] a.type = "POINTER" -> MemGet(mem, MemGet(mem, a.content))

\* A literal of 0 reads as 0, and one built from a missing value as
\* UNDEFINED; neither has an address.
LiteralReads ==
  LET st == MState(memory, io) IN
    /\ Read(st, Literal(0)) = 0
    /\ Read(st, Literal(JsUndefined)) = UNDEFINED
    /\ Address(st, Literal(0)) = UNDEFINED
    /\ Address(st, Block(0)) = UNDEFINED

C25_PointerIndirection ==
  LET st == MState(memory, io) IN
    /\ \A p \in PointerCells \cup {stack.data, base.data} :
         /\ Address(st, Pointer(p)) = MemGet(memory, p)
         /\ Read(st, Pointer(p)) = MemGet(memory, MemGet(memory, p))
    /\ (MemGet(memory, 1) = 2 /\ MemGet(memory, 2) = 10) =>
         (Read(st, Pointer(1)) = 10 /\ Address(st, Pointer(1)) = 2)

\* A memory with Memory[1] = 2 and Memory[2] = 10 that operations on
\* operands produced.
C25_Witness ==
  /\ pc = "operands"
  /\ trace # <<>>
  /\ MemGet(memory, 1) = 2
  /\ MemGet(memory, 2) = 10
  /\ Read(MState(memory, io), Pointer(1)) = 10

(***************************************************************************)
(* C26  Pointer writes.                                                    *)
(***************************************************************************)
\* The operation this step applied to an operand.
AppliedOp == Last(trace')

\* The effect of pointer.address = a and of pointer.write(v) on a pointer
\* with data p that pointed to q, where the cells named by keep are
\* required to be left as they were.
AssignEffect(p, a, keep) ==
  /\ MemGet(memory', p) = a
  /\ SameExcept(memory', memory, {p})
  /\ \A k \in keep : MemGet(memory', k) = MemGet(memory, k)
  /\ Read(MState(memory', io'), Pointer(p)) = MemGet(memory', a)

WriteEffect(p, q, v, keep) ==
  /\ MemGet(memory', q) = v
  /\ SameExcept(memory', memory, {q})
  /\ \A k \in keep : MemGet(memory', k) = MemGet(memory, k)

\* C26 as stated: pointer.address = a changes only the pointer's own cell
\* and leaves the cell it pointed to unchanged, after which read() returns
\* Memory[a]; pointer.write(v) changes only the cell pointed to and leaves
\* the pointer's own cell unchanged.
C26_PointerWritesAsStated ==
  [][LET q == MemGet(memory, AppliedOp[2]) IN
       /\ AppliedOp[1] = "address" => AssignEffect(AppliedOp[2], AppliedOp[3], {q})
       /\ AppliedOp[1] = "write" =>
            WriteEffect(AppliedOp[2], q, AppliedOp[3], {AppliedOp[2]})]_vars

\* C26, amended: the same, where the cell left unchanged is required to be
\* so only when the pointer does not point to its own cell (when it does,
\* the two cells are one, and that cell is the one changed).
C26_PointerWrites ==
  [][LET p == AppliedOp[2]
         q == MemGet(memory, p)
     IN /\ AppliedOp[1] = "address" => AssignEffect(p, AppliedOp[3], {q} \ {p})
        /\ AppliedOp[1] = "write" => WriteEffect(p, q, AppliedOp[3], {p} \ {q})]_vars

\* Pointer(1) was pointed at cell 2 and then written: cell 2 holds the
\* word written and cell 1 still holds 2.
C26_Witness ==
  /\ pc = "operands"
  /\ Len(trace) = 2
  /\ trace[1] = <<"address", 1, 2>>
  /\ trace[2] = <<"write", 1, 10>>
  /\ MemGet(memory, 1) = 2
  /\ MemGet(memory, 2) = 10

(***************************************************************************)
(* C27  Flag helpers.                                                      *)
(***************************************************************************)
\* C27: on every flags word and for each flag f of HALT and ZERO, get(f) is
\* true exactly when bit f of the word is 1; get(f) is true after set(f)
\* and false after unset(f); set and unset are idempotent; toggle(f) twice
\* restores the word; and set, unset and toggle of f leave what get returns
\* for the other flag as it was.
C27_FlagHelpers ==
  LET st == MState(memory, io)
      word == MemGet(memory, flags.data)
  IN \A f \in {HALT, ZERO} :
       /\ FlagGet(st, flags, f) <=> (BitOf(ToInt32(word), f) = 1)
       /\ FlagGet(FlagSet(st, flags, f), flags, f)
       /\ ~FlagGet(FlagUnset(st, flags, f), flags, f)
       /\ FlagSet(FlagSet(st, flags, f), flags, f) = FlagSet(st, flags, f)
       /\ FlagUnset(FlagUnset(st, flags, f), flags, f) = FlagUnset(st, flags, f)
       /\ FlagToggle(FlagToggle(st, flags, f), flags, f).mem = memory
       /\ \A g \in {HALT, ZERO} \ {f} :
            /\ FlagGet(FlagSet(st, flags, f), flags, g) = FlagGet(st, flags, g)
            /\ FlagGet(FlagUnset(st, flags, f), flags, g) = FlagGet(st, flags, g)
            /\ FlagGet(FlagToggle(st, flags, f), flags, g) = FlagGet(st, flags, g)

(***************************************************************************)
(* C28  Unary operations work in place.                                    *)
(***************************************************************************)
\* The operand a unary operation replaces.
UnaryDest(ins) == IF Len(ins.args) >= 1 THEN ins.args[1] ELSE accum

\* What each unary operation makes of a number.
UnaryResult(op, a) ==
  CASE op = "ZERO" -> 0
    [] op = "INC" -> a + 1
    [] op = "DEC" -> a - 1
    [] op = "NEG" -> 0 - a
    [] op = "DBL" -> 2 * a
    [] op = "SQ" -> a * a

\* The number of executed instructions with op code op.
Executed(op) == Cardinality({i \in 1..Len(trace) : program[trace[i] + 1].opCode = op})

\* A run that is COPY v followed by INCs and DECs of accum only has
\* accum = v + (number of INCs) - (number of DECs): v + k after k INCs,
\* v - k after k DECs, v again after INC; DEC.
CountingRun ==
  (/\ trace # <<>>
   /\ \A i \in 1..Len(trace) : trace[i] = i - 1
   /\ program[1].opCode = "COPY" /\ Len(program[1].args) = 1 /\ IsLiteral(program[1].args[1])
   /\ \A i \in 2..Len(trace) : program[i].opCode \in {"INC", "DEC"} /\ program[i].args = <<>>)
  => Accum(memory) = program[1].args[1].data + Executed("INC") - Executed("DEC")

\* C28: ZERO / INC / DEC / NEG / DBL / SQ replace their operand (default
\* accum) by 0 / a+1 / a-1 / -a / 2a / a*a of its value a and change no
\* other cell, so with an operand other than accum they leave accum as it
\* was; DEC applied after any executed INC gives the old value back; and
\* COPY v followed by k INCs (k DECs) leaves accum = v + k (v - k).
C28_UnaryInPlace ==
  /\ [][(Completed /\ RanIns.opCode \in UnaryOps) =>
          LET st == MState(memory, io)
              X == UnaryDest(RanIns)
              d == Address(st, X)
              a == Read(st, X)
          IN /\ Len(RanIns.args) = 0 => d = accum.data
             /\ MemGet(memory', d) = UnaryResult(RanIns.opCode, a)
             /\ SameExcept(OpState.mem, memory, {d})
             /\ d # accum.data => Accum(memory') = Accum(memory)
             /\ RanIns.opCode = "INC" => Read(applyToDest("DEC", OpState, X), X) = a]_vars
  /\ []CountingRun

\* COPY 4, @r0; DEC @r0 has run: r0 holds 3 and accum is still 0.
C28_Witness ==
  /\ trace = <<0, 1>>
  /\ source[1] = Ins("COPY", <<Lit(4), Var(anon(0).data)>>)
  /\ source[2] = Ins("DEC", <<Var(anon(0).data)>>)
  /\ MemGet(memory, anon(0).data) = 3
  /\ Accum(memory) = 0

(***************************************************************************)
(* C29  The instruction pointer at the start of a run.                     *)
(***************************************************************************)
\* C29: whenever the first step of a run() begins (the run has executed
\* nothing yet and the HALT flag does not read as set), the instruction
\* pointer is STARTING_INSTRUCTION, whatever the machine did before.
C29_StartsAtStart ==
  [][(pc = "running" /\ ~Halted /\ trace = <<>>) =>
       InstrPointer(memory) = STARTING_INSTRUCTION]_vars

(***************************************************************************)
(* C30  The two drivers.                                                   *)
(***************************************************************************)
\* The queues when run() reaches its choice of driver on a fresh machine.
StartIo == dumpRegisters(MState(FreshMemory, FreshIo)).io

\* The free-running loop on the loaded program, cut off after k steps.
FreeRunFor(k) == FreeRun(FreshMemory, StartIo, program, 0, k)

\* More steps than any run takes.
Fuel == MAX_STEPS + 2

\* The machine state (memory with the instruction pointer and the flags,
\* the queues, the step counter) is that of record r.
MachineIs(r) == memory = r.mem /\ io = r.io /\ steps = r.steps

\* C30: under either driver the machine state after n executed instructions
\* is the state the free-running loop has after n steps, so triggering
\* step by step passes through the states of the free run; a run resolves
\* in the state, and after the number of instructions, the free-running
\* loop ends with, and a run that throws does so where that loop throws; a
\* trigger that finds the HALT flag set executes nothing.
C30_DriverEquivalence ==
  /\ []((pc \in {"running", "halted", "error"} /\ ~LoadFails(source)) =>
          /\ pc = "running" =>
               LET at == FreeRunFor(Len(trace)) IN
                 MachineIs(at) /\ ~at.err /\ at.left = 0
          /\ pc = "halted" =>
               LET end == FreeRunFor(Fuel) IN
                 /\ memory = end.mem /\ steps = end.steps /\ io = FinalReport(end.io)
                 /\ ~end.err
                 /\ Len(trace) = Fuel - end.left
          /\ pc = "error" =>
               LET end == FreeRunFor(Fuel) IN MachineIs(end) /\ end.err)
  /\ [][(mode = "step" /\ Halted) =>
          (~Ran /\ memory' = memory /\ steps' = steps /\ pc' = "halted")]_vars

\* The subroutine program, triggered step by step, has resolved after the
\* eight instructions the free run executes.
C30_Witness ==
  /\ mode = "step"
  /\ pc = "halted"
  /\ source = CallProgram
  /\ Len(trace) = 8
  /\ Len(trace) = Fuel - FreeRunFor(Fuel).left
  /\ memory = FreeRunFor(Fuel).mem

(***************************************************************************)
(* C31  What a step leaves alone.                                          *)
(***************************************************************************)
\* This transition is a call of step(): the machine was running and the
\* promise did not resolve.
Stepped == pc = "running" /\ pc' # "halted"

\* The registers are bound to their offsets by Bus's constructor (accum ..
\* anon) and the bound operands are part of the instruction list, so the
\* layout a step could disturb is the list.
ListFrozen == program' = program /\ source' = source

\* C31 as stated: a step leaves the compiled instruction list (length,
\* opcodes, bound operands, order) as it is and changes nothing but memory
\* cells and channel queues, so not the step counter either.
C31_OnlyCellsAndQueues == [][Stepped => (ListFrozen /\ steps' = steps)]_vars

\* C31: a step leaves the compiled instruction list (length, opcodes, bound
\* operands, order) as it is and changes nothing but memory cells, channel
\* queues and the step counter: the driver and the number of runs stay.
C31_LayoutFrozen == [][Stepped => (ListFrozen /\ mode' = mode /\ runs' = runs)]_vars

\* A step has executed an instruction of a loaded program and has changed
\* memory, the queues and the step counter.
C31_Witness ==
  /\ pc = "running"
  /\ Len(trace) >= 1
  /\ program = loadProgram(source)
  /\ Len(program) = MaxLen
  /\ memory # FreshMemory
  /\ io # StartIo
  /\ steps >= 1

(***************************************************************************)
(* C32  Memory cells and variables.                                        *)
(***************************************************************************)
\* What reading through new Variable('var', a, memory) returns.
VariableRead(mem, a) == Read(MState(mem, <<>>), Variable(a))

StripLine(line) == Split(line, COMMENT_PREFIX)[1]

\* The text with the comments stripped.
Stripped == [i \in 1..Len(text) |-> StripLine(text[i])]

\* Line i of the text holds a label, or an instruction, once its comment
\* is stripped.
IsLabelLine(i) == Trim(StripLine(text[i])) # <<>> /\ Last(Trim(StripLine(text[i]))) = BLOCK_SUFFIX
IsInstructionLine(i) == Trim(StripLine(text[i])) # <<>> /\ ~IsLabelLine(i)

\* The index a label on line i names: the instructions before it.
LabelIndex(i) == Cardinality({k \in 1..(i - 1) : IsInstructionLine(k)})

\* The text has one label line, and an instruction after it.
OneLabel ==
  /\ Cardinality({i \in 1..Len(text) : IsLabelLine(i)}) = 1
  /\ \E i, k \in 1..Len(text) : IsLabelLine(i) /\ k > i /\ IsInstructionLine(k)

\* C33: once a text has been parsed, the parser has failed only if it
\* fails on the text without its comments, the instruction list is the
\* list of the text without its comments, it has one instruction for each
\* line that holds an instruction, a label names the index of the first
\* instruction after it, and a run halts in the memory in which the
\* free-running loop halts on the list of the text without its comments.
C33_CommentTolerance ==
  pc # "source" =>
    LET plain == getProgram(Stripped, BusMap) IN
      /\ (pc = "error" /\ mode = "none") = plain.err
      /\ ~(pc = "error" /\ mode = "none") =>
           /\ source = plain.instructions
           /\ Len(source) = Cardinality({i \in 1..Len(text) : IsInstructionLine(i)})
           /\ OneLabel =>
                \A i \in 1..Len(text) : IsLabelLine(i) =>
                  \A n \in 1..Len(source) : \A j \in 1..Len(source[n].arguments) :
                    source[n].arguments[j].type = "BLOCK" =>
                      source[n].arguments[j].content = LabelIndex(i)
           /\ pc = "halted" =>
                memory = FreeRun(FreshMemory, StartIo, loadProgram(plain.instructions), 0, Fuel).mem

(***************************************************************************)
(* C34  What touches the queues.                                           *)
(***************************************************************************)
\* C34: from the construction of the machine to the end of the reporting
\* after the run, a transition that changes the input queue is the
\* execution of an IN, and a transition that changes the output queue is
\* the execution of an OUT: loading, the steps of the other instructions,
\* the register dumps and the final report leave both queues as they are.
C34_ChannelFrame ==
  [][/\ io'[input.data + 1] # io[input.data + 1] => (Ran /\ RanIns.opCode = "IN")
     /\ io'[output.data + 1] # io[output.data + 1] => (Ran /\ RanIns.opCode = "OUT")]_vars

(***************************************************************************)
(* C35  The stack stays above its base.                                    *)
(***************************************************************************)
\* C35: in every state the machine reaches the stack pointer is at or above
\* STACK_SEGMENT, so a POP or an EXIT on an empty stack leaves it there.
C35_StackBound ==
  (IsNum(StackPointer(memory)) /\ StackPointer(memory) >= STACK_SEGMENT)

(***************************************************************************)
(* C36  Nested calls.                                                      *)
(***************************************************************************)
\* The indexes NestProgram(d) executes: down through the d calls, the
\* innermost subroutine, then POP and EXIT of each level from the inside
\* out, then HALT.
NestTrace(d) ==
  <<0>> \o [k \in 1..d |-> 3 * k - 1] \o <<3 * d + 2, 3 * d + 3>>
      \o [m \in 1..(2 * d) |-> 3 * (d - ((m - 1) \div 2)) + ((m - 1) % 2)]
      \o <<1>>

\* The call that encloses the call in progress.
Enclosing == frames[Len(frames) - 1]

\* C36: the EXIT of a subroutine called from inside another subroutine
\* resumes after its own ENTER and leaves the return address of the
\* enclosing call where that call's ENTER put it; so when every level
\* removes the returned value of the subroutine it called (POP) before its
\* own EXIT, the return addresses are used last in, first out: calls
\* nested d deep execute down through the ENTERs, then back out through
\* each level's POP and EXIT, and halt at the instruction after the first
\* ENTER.
C36_NestedCalls ==
  /\ [][(Completed /\ RanIns.opCode = "EXIT" /\ Len(frames) >= 2 /\ Matching) =>
          /\ InstrPointer(memory') = Last(frames).ret
          /\ Enclosing.ok => MemGet(memory', Enclosing.sp - 1) = Enclosing.ret]_vars
  /\ [](\A d \in 1..MaxDepth :
          (source = NestProgram(d) /\ pc = "halted") =>
            (trace = NestTrace(d) /\ StackPointer(memory) = STACK_SEGMENT + 1))

\* Subroutine S1 called S2, S2 called the innermost subroutine, and each
\* has returned to the instruction after its ENTER.
C36_Witness ==
  /\ source = NestProgram(2)
  /\ pc = "halted"
  /\ trace = <<0, 2, 5, 8, 9, 6, 7, 3, 4, 1>>

(***************************************************************************)
(* C37  Last in, first out.                                                *)
(***************************************************************************)
\* The number of pushes of the program, and the word its j-th PUSH pushes
\* on the fresh machine (a literal, or the zero of a register).
Pushes == Len(program) \div 2
Pushed(j) == IF IsLiteral(PushSrc(program[j])) THEN PushSrc(program[j]).data ELSE 0

\* The cells the program may write below the stack: the destinations of
\* its POPs and the machine's own registers (the stack pointer, the
\* instruction pointer, the flags).
LifoWritable ==
  {PopDest(program[i]).data : i \in (Pushes + 1)..Len(program)}
    \cup {stack.data, instr.data, flags.data}

\* C37: in a run of n PUSHes of v1 .. vn followed by n POPs, the k-th POP
\* delivers v(n-k+1) to its destination, so the words come back as
\* vn .. v1; after the last POP the stack pointer has the value it had
\* before the first PUSH; and below that value no cell is written or
\* created but the destinations of the POPs (and the machine's registers
\* for the stack pointer, the instruction pointer and the flags).
C37_StackLifo ==
  /\ [][(Completed /\ RanIns.opCode = "POP") =>
          Read(MState(memory', io'), PopDest(RanIns)) = Pushed(2 * Pushes - RanNo)]_vars
  /\ []((pc \in {"running", "halted"} /\ Len(trace) = Len(program)) =>
          StackPointer(memory) = StackPointer(FreshMemory))
  /\ [](\A a \in DOMAIN memory :
          (a < StackPointer(FreshMemory) /\ a \notin LifoWritable) =>
            (a \in DOMAIN FreshMemory /\ memory[a] = FreshMemory[a]))

\* PUSH 7; PUSH 9; POP @r0; POP @r1 has run: r0 holds 9, r1 holds 7 and
\* the stack pointer is back at the stack segment.
C37_Witness ==
  /\ pc = "halted"
  /\ source = LifoProgram(<< <<Lit(7)>>, <<Lit(9)>> >>,
                          << <<Var(anon(0).data)>>, <<Var(anon(1).data)>> >>)
  /\ trace = <<0, 1, 2, 3>>
  /\ MemGet(memory, anon(0).data) = 9
  /\ MemGet(memory, anon(1).data) = 7
  /\ StackPointer(memory) = STACK_SEGMENT

(***************************************************************************)
(* C38  The register map.                                                  *)
(***************************************************************************)
\* The register of the bus that has a name.
RegisterOf(name) ==
  CASE name = "accum" -> accum
    [] name = "data" -> data
    [] name = "flags" -> flags
    [] name = "instr" -> instr
    [] name = "stack" -> stack
    [] name = "base" -> base
    [] name = "input" -> input
    [] name = "output" -> output
    [] OTHER -> anon(CHOOSE i \in 0..(NUM_UNNAMED_REGS - 1) : BusMap[name] = anon(i).data)

\* The names of the registers bound to memory.
MemoryNames == RegisterNames \ {"input", "output"}

\* The register name line i of the text ends with.
NamedAt(i) == Last(text[i])

\* C38: the map gives every register bound to memory the address it is
\* bound to, and no two names of the map the same address; so the parser
\* resolves the operand @name to the address of that register, and the
\* instruction COPY 0d2, @name stores 2 in the cell the kernel uses for
\* the register and changes no other cell.
C38_RegisterMap ==
  /\ [](/\ \A name \in MemoryNames : BusMap[name] = RegisterOf(name).data
        /\ \A n1, n2 \in RegisterNames : n1 # n2 => BusMap[n1] # BusMap[n2])
  /\ [](pc = "constructed" =>
          \A i \in 1..Len(source) :
            NamedAt(i) \in MemoryNames =>
              source[i].arguments[2].content = RegisterOf(NamedAt(i)).data)
  /\ [][(Completed /\ NamedAt(RanNo + 1) \in MemoryNames) =>
          /\ MemGet(OpState.mem, RegisterOf(NamedAt(RanNo + 1)).data) = 2
          /\ SameExcept(OpState.mem, memory, {RegisterOf(NamedAt(RanNo + 1)).data})]_vars

(***************************************************************************)
(* C39  A run after a run that halted.                                     *)
(***************************************************************************)
\* This transition is a run() on a machine whose run before has resolved.
RunsAgain == pc = "halted" /\ runs' = runs + 1

\* C39: a run() on a machine whose previous run halted resets the step
\* counter and leaves memory, with the HALT flag and the instruction
\* pointer, as it is; and a run that finds the HALT flag set before it has
\* executed anything does nothing but resolve, with memory unchanged: it
\* executes no instruction of the program it was given.
C39_NoRestart ==
  /\ [][RunsAgain =>
          /\ pc' = "running"
          /\ steps' = 0
          /\ memory' = memory
          /\ HaltedIn(memory', io')
          /\ trace' = <<>>]_vars
  /\ [][(runs >= 2 /\ pc = "running" /\ Halted /\ trace = <<>>) =>
          /\ pc' = "halted"
          /\ memory' = memory
          /\ steps' = steps
          /\ trace' = <<>>]_vars

\* After a program of two instructions has halted, the run of another
\* program (COPY 100; INC; INC; INC) has resolved without executing any of
\* it: the instruction pointer is where the first run left it and the
\* accumulator is not 103.
C39_Witness ==
  /\ runs = 2
  /\ pc = "halted"
  /\ trace = <<>>
  /\ source = IncProgram
  /\ program = loadProgram(IncProgram)
  /\ InstrPointer(memory) = 2
  /\ Accum(memory) # 103
  /\ steps = 0

====
